---------------------------- MODULE Spec2Model ----------------------------
(***************************************************************************)
(* Request correlation engine of the LMArena bridge (src/api_server.py).   *)
(*                                                                         *)
(* The server keeps three process-wide objects: browser_ws (the one link   *)
(* to the browser script), response_channels (request id -> asyncio.Queue) *)
(* and IS_REFRESHING_FOR_VERIFICATION.  They are touched by three kinds of *)
(* coroutine that interleave at their await points only:                   *)
(*   websocket_endpoint   one per link: attach, receive loop, teardown     *)
(*   chat_completions     one per API call: checks, register, upload, send *)
(*   _process_lmarena_stream  one per request: the decoder of its queue    *)
(* Every action below is the code between two await points of one of them. *)
(***************************************************************************)
EXTENDS Integers, Sequences, FiniteSets, TLC

\* ------------------------------------------------------------------ bounds
MaxQueue == 1    \* frames waiting in a queue at which the browser stops sending
MaxLog == 2      \* frames dispatched to the request whose history is recorded
MaxPieces == 3   \* pieces of text in one upstream response
MaxChars == 5    \* characters after the opening of a text token spelled out
MaxPrior == 1    \* messages of a translated request before its last one
MaxMessages == 3 \* messages of a translated request of plain messages

\* Two concurrent API calls (request ids A and B) and two websocket
\* connections of the browser script (L1, L2), each named in order of
\* arrival: A is the call that arrives first, L1 the link that attaches first
ReqIds == {"A", "B"}
Links == {"L1", "L2"}

\* ------------------------------------------------------------ vocabulary
\* browser_ws = None
None == "None"

\* The "data" field of an inbound frame is a string, a list of strings or
\* an object.  A string is written as the sequence of the pieces it is made
\* of, so that `buffer += raw_data` is concatenation:
\*   T        a complete text token      a0:"Hi"
\*   T1, T2   its two halves             a0:"H   and   i"
\*   I        a complete media token     a2:[{"type":"image","image":"u"}]
\*   F        a complete finish token    ad:{"finishReason":"stop"}
\*   FL, FC   finish tokens with the reasons "length" and "content-filter"
\*   CF       a challenge-page marker    <title>Just a moment...</title>
\*   E413     an inline error object     {"error": "413 too large"}
\*   EB       an inline error object     {"error": {"message": "x"}}
\*            (the error pattern matches it up to its first closing brace,
\*            and that match is not JSON)
TokenPieces == {"T", "T1", "T2", "I", "F"}
Pieces == TokenPieces \cup {"CF", "E413", "EB"}
FinishPieces == {"F", "FL", "FC"}
\* Text the decoder cannot interpret:
\*   TX       a text token that is not a JSON string     a0:"\x"
\*   IX       a media token that is not JSON             a2:[1,]
\*   IN       a media array of an object without image   a2:[{"type":"text"}]
\*   IB       a media array of something else            a2:[1]
\*   FX       a finish token that is not JSON            ad:{"finishReason"}
\*   G        text that matches no pattern               zzz
OddPieces == {"TX", "IX", "IN", "IB", "FX", "G"}
\* A text token spelled out, character by character:
\*   O        its opening                a0:"
\*   c        an ordinary character      h
\*   BS       a backslash                \
\*   Q        a double quote             "
CharPieces == {"c", "BS", "Q"}

\* The sentinel "[DONE]"
Done == <<"[DONE]">>
\* A complete text token alone, a challenge page alone
Tok == <<"T">>
Cf == <<"CF">>
\* What the browser script sends in the model of the whole server
BrowserData == {Tok, Cf, Done}

\* Objects with an "error" key, by their message:
\* {"error": "Browser disconnected during operation"}, put by the teardown
DisconnectError == <<"{error: Browser disconnected during operation}">>
Dict413 == <<"{error: HTTP 413}">>
DictCf == <<"{error: <title>Just a moment...</title>}">>
Dict413Cf == <<"{error: 413 <title>Just a moment...</title>}">>
DictRaw == <<"{error: boom}">>
\* an upstream message that holds the words of the friendly message
DictPhrase == <<"{error: attachment size phrase}">>
ErrorDicts == {DisconnectError, Dict413, DictCf, Dict413Cf, DictRaw, DictPhrase}
\* A "data" that is neither a string nor a list, and has no "error" key
NumberData == <<"{number 123}">>
ObjectData == <<"{object without error}">>
BadPayloads == {NumberData, ObjectData}

\* Error messages a decoder yields
MsgRefreshSent == "verification: refresh sent"
MsgAlreadyWaiting == "verification: already awaiting"
MsgDisconnected == "Browser disconnected during operation"
MsgTimeout == "Response timed out"
MsgNoChannel == "response channel not found"
\* The friendly message, which holds the phrase the aggregated formatter
\* looks for
MsgTooLarge == "attachment too large (friendly message)"
\* Messages passed on as they came
MsgRaw == "boom"
MsgRaw413 == "413 too large"
MsgRawPhrase == "attachment size phrase"
\* Answers of chat_completions that never reach the decoder
Http401 == "401"
Http400 == "400"
Http503 == "503"
Http500Attachment == "500 attachment_error"
\* except Exception: the message is str(e)
Http500Translate == "500 internal_server_error: translation"
Http500NoLink ==
  "500 internal_server_error: 'NoneType' object has no attribute 'send_text'"
Http500Send == "500 internal_server_error: send_text raised"
\* Answers of non_stream_response: 200 with the completion object, or an
\* error object.  (A streaming call has answered 200 with its headers; resp
\* then stands for what the same events give an aggregated call.)
Http200 == "200"
\* `except Exception` of chat_completions around non_stream_response
Http500Internal == "500 internal_server_error: decoder raised"
Http413TooLarge == "413 attachment_too_large"
Http500Processing == "500 processing_error"
HttpAnswers ==
  {Http401, Http400, Http503, Http500Attachment, Http500Translate,
   Http500NoLink, Http500Send, Http200, Http413TooLarge, Http500Processing,
   Http500Internal}

ErrorMsgs ==
  {MsgRefreshSent, MsgAlreadyWaiting, MsgDisconnected, MsgTimeout, MsgNoChannel,
   MsgTooLarge, MsgRaw, MsgRaw413, MsgRawPhrase}

\* The events the decoder yields
ContentText == [type |-> "content", data |-> "Hi"]
ContentImage == [type |-> "content", data |-> "![Image](u)"]
FinishStop == [type |-> "finish", data |-> "stop"]
FinishLength == [type |-> "finish", data |-> "length"]
FinishFilter == [type |-> "finish", data |-> "content-filter"]
ErrorEvent(msg) == [type |-> "error", data |-> msg]

\* Texts the formatters add: the notice that follows a "content-filter"
\* finish, and the head of an error text.  A text is the sequence of the
\* strings it is made of, so that "".join(...) is concatenation.
FilterNotice == "notice: the response was terminated"
ErrorPrefix == "[LMArena Bridge Error]: "
\* The returned object before non_stream_response has returned
NoObject == [content |-> <<>>, finish_reason |-> "none"]

VARIABLES
  browser_ws,        \* None or the link stored in the global
  linkState,         \* per link: "new", "open" (in the receive loop), "closed"
  response_channels, \* the keys of the dict
  queue,             \* per request id: contents of the Queue object made for it
  IS_REFRESHING_FOR_VERIFICATION,
  pc,                \* per request id: where its API call / decoder stands
  resp,              \* per request id: HTTP status chat_completions answered with
  outcome,           \* per request id: how its decoder ended
  sentOver,          \* per request id: the link its payload frame was sent over
  refreshSent,       \* per link: number of {"command": "refresh"} frames sent
  logging,           \* the request ids whose two histories are recorded
  putlog,            \* per request id: every item put into its queue, in order
  consumed,          \* per request id: every item its decoder got, in order
  buffer,            \* per request id: the decoder's local `buffer`
  events,            \* per request id: every event its decoder yielded, in order
  chunks,            \* per request id: what stream_generator has yielded
  finish_reason_to_send, \* per request id: the local of stream_generator
  full_content,      \* per request id: the local list of non_stream_response
  finish_reason,     \* per request id: the local of non_stream_response
  returned,          \* per request id: the completion object it returned
  openai_req,        \* the messages of the API call being translated
  CONFIG,            \* the configuration the translator reads
  model_info,        \* the entry of MODEL_NAME_TO_ID_MAP for the model named
  mode_override,     \* the argument of the translator, None if not given
  battle_target_override, \* the argument of the translator, None if not given
  message_templates, \* the local list of the translator
  tpc                \* the step the translator stands before

vars ==
  <<browser_ws, linkState, response_channels, queue,
    IS_REFRESHING_FOR_VERIFICATION, pc, resp, outcome, sentOver, refreshSent,
    logging, putlog, consumed, buffer, events, chunks, finish_reason_to_send,
    full_content, finish_reason, returned, openai_req, CONFIG, model_info,
    mode_override, battle_target_override, message_templates, tpc>>

linkVars == <<browser_ws, linkState>>
callVars == <<pc, resp, outcome, sentOver>>
renderVars ==
  <<chunks, finish_reason_to_send, full_content, finish_reason, returned>>
translateVars ==
  <<openai_req, CONFIG, model_info, mode_override, battle_target_override,
    message_templates, tpc>>
logVars ==
  <<logging, putlog, consumed, buffer, events, renderVars, translateVars>>

\* No call is being translated
TranslatorIdle ==
  /\ openai_req = <<>>
  /\ CONFIG = [tavern_mode_enabled |-> FALSE, bypass_enabled |-> FALSE,
               id_updater_last_mode |-> "direct_chat",
               id_updater_battle_target |-> "A"]
  /\ model_info = [type |-> "text"]
  /\ mode_override = None
  /\ battle_target_override = None
  /\ message_templates = <<>>
  /\ tpc = "idle"

Init ==
  /\ browser_ws = None
  /\ linkState = [l \in Links |-> "new"]
  /\ response_channels = {}
  /\ queue = [r \in ReqIds |-> <<>>]
  /\ IS_REFRESHING_FOR_VERIFICATION = FALSE
  /\ pc = [r \in ReqIds |-> "start"]
  /\ resp = [r \in ReqIds |-> "none"]
  /\ outcome = [r \in ReqIds |-> "none"]
  /\ sentOver = [r \in ReqIds |-> None]
  /\ refreshSent = [l \in Links |-> 0]
  /\ logging = {}
  /\ putlog = [r \in ReqIds |-> <<>>]
  /\ consumed = [r \in ReqIds |-> <<>>]
  /\ buffer = [r \in ReqIds |-> <<>>]
  /\ events = [r \in ReqIds |-> <<>>]
  /\ chunks = [r \in ReqIds |-> <<>>]
  /\ finish_reason_to_send = [r \in ReqIds |-> "stop"]
  /\ full_content = [r \in ReqIds |-> <<>>]
  /\ finish_reason = [r \in ReqIds |-> "stop"]
  /\ returned = [r \in ReqIds |-> NoObject]
  /\ TranslatorIdle

\* The same start, with the put and get histories of request A recorded
InitLogged ==
  /\ browser_ws = None
  /\ linkState = [l \in Links |-> "new"]
  /\ response_channels = {}
  /\ queue = [r \in ReqIds |-> <<>>]
  /\ IS_REFRESHING_FOR_VERIFICATION = FALSE
  /\ pc = [r \in ReqIds |-> "start"]
  /\ resp = [r \in ReqIds |-> "none"]
  /\ outcome = [r \in ReqIds |-> "none"]
  /\ sentOver = [r \in ReqIds |-> None]
  /\ refreshSent = [l \in Links |-> 0]
  /\ logging = {"A"}
  /\ putlog = [r \in ReqIds |-> <<>>]
  /\ consumed = [r \in ReqIds |-> <<>>]
  /\ buffer = [r \in ReqIds |-> <<>>]
  /\ events = [r \in ReqIds |-> <<>>]
  /\ chunks = [r \in ReqIds |-> <<>>]
  /\ finish_reason_to_send = [r \in ReqIds |-> "stop"]
  /\ full_content = [r \in ReqIds |-> <<>>]
  /\ finish_reason = [r \in ReqIds |-> "stop"]
  /\ returned = [r \in ReqIds |-> NoObject]
  /\ TranslatorIdle

\* One call, registered and sent over the first link, whose decoder waits
\* for the first frame of the response; its histories are recorded
InitDecoder ==
  /\ browser_ws = "L1"
  /\ linkState = [l \in Links |-> IF l = "L1" THEN "open" ELSE "new"]
  /\ response_channels = {"A"}
  /\ queue = [r \in ReqIds |-> <<>>]
  /\ IS_REFRESHING_FOR_VERIFICATION = FALSE
  /\ pc = [r \in ReqIds |-> IF r = "A" THEN "recv" ELSE "start"]
  /\ resp = [r \in ReqIds |-> "none"]
  /\ outcome = [r \in ReqIds |-> "none"]
  /\ sentOver = [r \in ReqIds |-> IF r = "A" THEN "L1" ELSE None]
  /\ refreshSent = [l \in Links |-> 0]
  /\ logging = {"A"}
  /\ putlog = [r \in ReqIds |-> <<>>]
  /\ consumed = [r \in ReqIds |-> <<>>]
  /\ buffer = [r \in ReqIds |-> <<>>]
  /\ events = [r \in ReqIds |-> <<>>]
  /\ chunks = [r \in ReqIds |-> <<>>]
  /\ finish_reason_to_send = [r \in ReqIds |-> "stop"]
  /\ full_content = [r \in ReqIds |-> <<>>]
  /\ finish_reason = [r \in ReqIds |-> "stop"]
  /\ returned = [r \in ReqIds |-> NoObject]
  /\ TranslatorIdle

\* ------------------------------------------------------------- helpers
\* The history log of request r with item d recorded
Record(log, r, d) == IF r \in logging THEN Append(log, d) ELSE log
RecordAll(log, r, ds) == IF r \in logging THEN log \o ds ELSE log

\* The browser script has another frame to send for request id r
MayDispatch(r) ==
  IF r \in logging THEN Len(putlog[r]) < MaxLog ELSE Len(queue[r]) < MaxQueue

\* Calls and links are named in order of arrival
Arrived(r) == r = "A" \/ pc["A"] # "start"
Connected(l) == l = "L1" \/ linkState["L1"] # "new"

\* A queue that hands out the newest item first
QueuePutFront(q, d) == <<d>> \o q

\* asyncio.Queue.put on an unbounded queue: append, no suspension
QueuePut(q, d) == Append(q, d)

\* A release that is not idempotent: an absent id comes back
ReleaseToggle(chans, r) == IF r \in chans THEN chans \ {r} ELSE chans \cup {r}

\* `if request_id in response_channels: del response_channels[request_id]`
Release(chans, r) == chans \ {r}

\* The Queue object of r once nothing refers to it any more (neither the
\* dict nor a decoder): its contents are gone
Dropped(q, r) == [q EXCEPT ![r] = <<>>]

\* ------------------------------------------------- websocket_endpoint
\* An attach that forgets the flag reset
AttachKeepsFlag(l) ==
  /\ linkState[l] = "new"
  /\ Connected(l)
  /\ browser_ws' = l
  /\ linkState' = [linkState EXCEPT ![l] = "open"]
  /\ UNCHANGED <<response_channels, queue, IS_REFRESHING_FOR_VERIFICATION,
                 callVars, refreshSent, logVars>>

\* accept, flag reset, browser_ws = websocket
Attach(l) ==
  /\ linkState[l] = "new"
  /\ Connected(l)
  /\ IS_REFRESHING_FOR_VERIFICATION' = FALSE
  /\ browser_ws' = l
  /\ linkState' = [linkState EXCEPT ![l] = "open"]
  /\ UNCHANGED <<response_channels, queue, callVars, refreshSent, logVars>>

\* A dispatch that ignores the request id: every registered queue gets d
DispatchBroadcast(l, r, d) ==
  /\ linkState[l] = "open"
  /\ \A o \in response_channels : MayDispatch(o)
  /\ queue' = [o \in ReqIds |->
                 IF o \in response_channels THEN QueuePut(queue[o], d) ELSE queue[o]]
  /\ putlog' = [o \in ReqIds |->
                 IF o \in response_channels THEN Record(putlog[o], o, d) ELSE putlog[o]]
  /\ UNCHANGED <<linkVars, response_channels, IS_REFRESHING_FOR_VERIFICATION,
                 callVars, refreshSent, logging, consumed, buffer, events, renderVars,
                 translateVars>>

\* `if request_id in response_channels: await ...put(data)`, else a warning
Route(r, d) ==
  IF r \in response_channels
    THEN /\ queue' = [queue EXCEPT ![r] = QueuePut(queue[r], d)]
         /\ putlog' = [putlog EXCEPT ![r] = Record(putlog[r], r, d)]
    ELSE UNCHANGED <<queue, putlog>>

\* One valid frame {request_id: r, data: d} received on link l
Dispatch(l, r, d) ==
  /\ linkState[l] = "open"
  /\ r \in response_channels => MayDispatch(r)
  /\ Route(r, d)
  /\ UNCHANGED <<linkVars, response_channels, IS_REFRESHING_FOR_VERIFICATION,
                 callVars, refreshSent, logging, consumed, buffer, events, renderVars,
                 translateVars>>

\* The frames of one upstream response, as the browser script forwards
\* them: strings cut anywhere between pieces, error objects, the sentinel
Fragments == UNION {[1..n -> Pieces] : n \in 1..MaxPieces}

\* The text sent so far: the strings of log, joined
RECURSIVE Flatten(_)
Flatten(log) ==
  IF log = <<>> THEN <<>>
  ELSE IF Head(log) \in ErrorDicts \cup BadPayloads \cup {Done}
    THEN Flatten(Tail(log))
  ELSE Head(log) \o Flatten(Tail(log))

\* The upstream text is made of whole tokens: the first half of a text
\* token is followed by its second half and by nothing else
WholeTokens(s) ==
  \A i \in 1..Len(s) :
    /\ s[i] = "T1" => (IF i = Len(s) THEN TRUE ELSE s[i + 1] = "T2")
    /\ s[i] = "T2" => (IF i = 1 THEN FALSE ELSE s[i - 1] = "T1")

\* The frames the browser script may forward next for request r: a string
\* that keeps the response within MaxPieces pieces of whole tokens, or, once
\* per response, the sentinel or an error object
NextData(r) ==
  LET sent == Flatten(putlog[r]) IN
    {d \in UNION {[1..n -> Pieces] : n \in 1..(MaxPieces - Len(sent))} :
       WholeTokens(sent \o d)}
    \cup (IF \A i \in 1..Len(putlog[r]) : putlog[r][i] \in Fragments
           THEN {Done} \cup (ErrorDicts \ {DisconnectError}) ELSE {})

\* The next frame of the response of request r arrives on link l, once the
\* decoder has taken the frame before it (a frame sent after the sentinel
\* does not wait)
StreamDispatch(l, r, d) ==
  /\ linkState[l] = "open"
  /\ queue[r] \in {<<>>, <<Done>>}
  /\ d \in NextData(r)
  /\ Route(r, d)
  /\ UNCHANGED <<linkVars, response_channels, IS_REFRESHING_FOR_VERIFICATION,
                 callVars, refreshSent, logging, consumed, buffer, events, renderVars,
                 translateVars>>

\* A frame that is JSON but has no request_id or no data: `continue`
ReceiveIncomplete(l) ==
  /\ linkState[l] = "open"
  /\ UNCHANGED vars

\* A teardown that clears the table without failing the requests
TeardownSilent(l) ==
  /\ browser_ws' = None
  /\ response_channels' = {}
  /\ linkState' = [linkState EXCEPT ![l] = "closed"]
  /\ UNCHANGED <<queue, IS_REFRESHING_FOR_VERIFICATION, callVars, refreshSent,
                 logVars>>

\* The finally block of websocket_endpoint
Teardown(l) ==
  /\ browser_ws' = None
  /\ queue' = [r \in ReqIds |->
                 IF r \in response_channels
                   THEN QueuePut(queue[r], DisconnectError) ELSE queue[r]]
  /\ putlog' = [r \in ReqIds |->
                 IF r \in response_channels
                   THEN Record(putlog[r], r, DisconnectError) ELSE putlog[r]]
  /\ response_channels' = {}
  /\ linkState' = [linkState EXCEPT ![l] = "closed"]
  /\ UNCHANGED <<IS_REFRESHING_FOR_VERIFICATION, callVars, refreshSent,
                 logging, consumed, buffer, events, renderVars,
                 translateVars>>

\* receive_text raises WebSocketDisconnect
Disconnect(l) ==
  /\ linkState[l] = "open"
  /\ Teardown(l)

\* A frame that is not JSON (or not an object): json.loads / message.get
\* raises inside the try, `except Exception` logs, the finally block runs
ReceiveMalformed(l) ==
  /\ linkState[l] = "open"
  /\ Teardown(l)


\* ---------------------------------------------------- chat_completions
\* From the last await of the upload loop to the send: translation, then
\* `browser_ws.send_text(...)`.  chans is the request table at that point;
\* translates is FALSE when convert_openai_to_lmarena_payload raises.  A
\* failure (the translation error, or the AttributeError of None.send_text)
\* is caught by `except Exception`: release the channel, answer 500.
CanSend(translates) == translates /\ browser_ws # None

TranslateAndSend(r, translates, chans) ==
  IF CanSend(translates)
    THEN /\ sentOver' = [sentOver EXCEPT ![r] = browser_ws]
         /\ pc' = [pc EXCEPT ![r] = "sent"]
         /\ response_channels' = chans
         /\ UNCHANGED resp
    ELSE /\ response_channels' = Release(chans, r)
         /\ resp' = [resp EXCEPT ![r] =
                      IF translates THEN Http500NoLink ELSE Http500Translate]
         /\ pc' = [pc EXCEPT ![r] = "failed"]
         /\ UNCHANGED sentOver

\* API key check fails: HTTPException 401
RejectUnauthorized(r) ==
  /\ pc[r] = "start"
  /\ Arrived(r)
  /\ resp' = [resp EXCEPT ![r] = Http401]
  /\ pc' = [pc EXCEPT ![r] = "rejected"]
  /\ UNCHANGED <<linkVars, response_channels, queue,
                 IS_REFRESHING_FOR_VERIFICATION, outcome, sentOver,
                 refreshSent, logVars>>

\* `if not browser_ws` (with or without the verification flag): 503
RejectUnavailable(r) ==
  /\ pc[r] = "start"
  /\ Arrived(r)
  /\ browser_ws = None
  /\ resp' = [resp EXCEPT ![r] = Http503]
  /\ pc' = [pc EXCEPT ![r] = "rejected"]
  /\ UNCHANGED <<linkVars, response_channels, queue,
                 IS_REFRESHING_FOR_VERIFICATION, outcome, sentOver,
                 refreshSent, logVars>>

\* A rejection that has the request id registered before it answers
RejectBadSessionRegisters(r) ==
  /\ pc[r] = "start"
  /\ Arrived(r)
  /\ browser_ws # None
  /\ response_channels' = response_channels \cup {r}
  /\ resp' = [resp EXCEPT ![r] = Http400]
  /\ pc' = [pc EXCEPT ![r] = "rejected"]
  /\ UNCHANGED <<linkVars, queue,
                 IS_REFRESHING_FOR_VERIFICATION, outcome, sentOver,
                 refreshSent, logVars>>

\* No mapping with fallback disabled, or missing / placeholder ids: 400
RejectBadSession(r) ==
  /\ pc[r] = "start"
  /\ Arrived(r)
  /\ browser_ws # None
  /\ resp' = [resp EXCEPT ![r] = Http400]
  /\ pc' = [pc EXCEPT ![r] = "rejected"]
  /\ UNCHANGED <<linkVars, response_channels, queue,
                 IS_REFRESHING_FOR_VERIFICATION, outcome, sentOver,
                 refreshSent, logVars>>

\* All checks pass: response_channels[request_id] = asyncio.Queue().
\* With an attachment to upload the call suspends in upload_to_file_bed;
\* without one it runs on to the send with no suspension in between.
Register(r, uploads, translates) ==
  /\ pc[r] = "start"
  /\ Arrived(r)
  /\ browser_ws # None
  /\ queue' = [queue EXCEPT ![r] = <<>>]
  /\ IF uploads
       THEN /\ response_channels' = response_channels \cup {r}
            /\ pc' = [pc EXCEPT ![r] = "upload"]
            /\ UNCHANGED <<resp, sentOver>>
       ELSE TranslateAndSend(r, translates, response_channels \cup {r})
  /\ UNCHANGED <<linkVars, IS_REFRESHING_FOR_VERIFICATION, outcome,
                 refreshSent, logVars>>

\* An upload failure that leaves the id in the table
UploadFailKeeps(r) ==
  /\ pc[r] = "upload"
  /\ resp' = [resp EXCEPT ![r] = Http500Attachment]
  /\ pc' = [pc EXCEPT ![r] = "failed"]
  /\ UNCHANGED <<linkVars, response_channels, queue,
                 IS_REFRESHING_FOR_VERIFICATION, outcome, sentOver,
                 refreshSent, logVars>>

\* upload_to_file_bed returned an error (IOError), or the part was invalid
\* (ValueError): release the channel, answer 500 attachment_error
UploadFail(r) ==
  /\ pc[r] = "upload"
  /\ response_channels' = Release(response_channels, r)
  /\ queue' = Dropped(queue, r)
  /\ resp' = [resp EXCEPT ![r] = Http500Attachment]
  /\ pc' = [pc EXCEPT ![r] = "failed"]
  /\ UNCHANGED <<linkVars, IS_REFRESHING_FOR_VERIFICATION, outcome,
                 sentOver, refreshSent, logVars>>

\* The last upload returned successfully; on to translation and send
UploadDone(r, translates) ==
  /\ pc[r] = "upload"
  /\ TranslateAndSend(r, translates, response_channels)
  /\ queue' = IF CanSend(translates) THEN queue ELSE Dropped(queue, r)
  /\ UNCHANGED <<linkVars, IS_REFRESHING_FOR_VERIFICATION, outcome,
                 refreshSent, logVars>>

\* The link was closed while send_text was awaited and send_text raises:
\* `except Exception`, release, answer 500
SendFail(r) ==
  /\ pc[r] = "sent"
  /\ linkState[sentOver[r]] = "closed"
  /\ response_channels' = Release(response_channels, r)
  /\ queue' = Dropped(queue, r)
  /\ resp' = [resp EXCEPT ![r] = Http500Send]
  /\ pc' = [pc EXCEPT ![r] = "failed"]
  /\ UNCHANGED <<linkVars, IS_REFRESHING_FOR_VERIFICATION, outcome, sentOver,
                 refreshSent, logVars>>

\* -------------------------------- stream_generator, non_stream_response
\* `"附件大小超过了" in str(data)`: the friendly message holds the phrase, and
\* so does an upstream message with the same words
HasFriendlyPhrase(msg) == msg \in {MsgTooLarge, MsgRawPhrase}

\* non_stream_response on ('error', msg): status and code of the error object
AggregatedError(msg) ==
  IF HasFriendlyPhrase(msg) THEN Http413TooLarge ELSE Http500Processing

\* format_openai_chunk: a chunk whose delta holds the text
format_openai_chunk(content) ==
  [delta |-> content, finish_reason |-> "None", done |-> FALSE]

\* format_openai_finish_chunk: an empty delta with the reason, followed in
\* the same string by the end-of-stream marker "data: [DONE]"
format_openai_finish_chunk(reason) ==
  [delta |-> <<>>, finish_reason |-> reason, done |-> TRUE]

\* format_openai_error_chunk: a content chunk with the error text
format_openai_error_chunk(error_message) ==
  format_openai_chunk(<<ErrorPrefix, error_message>>)

\* format_openai_non_stream_response: the completion object
format_openai_non_stream_response(content, reason) ==
  [content |-> content, finish_reason |-> reason]

\* A streamer that closes after an Error with the reason it remembers
StreamOnErrorKeepsReason(st, e) ==
  [chunks |-> st.chunks \o <<format_openai_error_chunk(e.data),
                              format_openai_finish_chunk(st.reason)>>,
   reason |-> st.reason]

\* stream_generator on ('error', data): the error chunk, the closing chunk
\* with reason 'stop', return
StreamOnError(st, e) ==
  [chunks |-> st.chunks \o <<format_openai_error_chunk(e.data),
                              format_openai_finish_chunk("stop")>>,
   reason |-> st.reason]

\* A streamer that sends a finish chunk of its own for every Finish
StreamOnFinishCloses(st, e) ==
  [chunks |-> Append(st.chunks, format_openai_finish_chunk(e.data)),
   reason |-> e.data]

\* stream_generator on ('finish', data): remember the reason; a
\* 'content-filter' finish also yields a chunk with the notice
StreamOnFinish(st, e) ==
  [chunks |-> IF e.data = "content-filter"
                THEN Append(st.chunks, format_openai_chunk(<<FilterNotice>>))
                ELSE st.chunks,
   reason |-> e.data]

\* The body of the `async for` of stream_generator for one event; st holds
\* the chunks yielded so far and finish_reason_to_send
StreamOn(st, e) ==
  IF e.type = "content"
    THEN [st EXCEPT !.chunks = Append(@, format_openai_chunk(<<e.data>>))]
  ELSE IF e.type = "finish" THEN StreamOnFinish(st, e)
  ELSE StreamOnError(st, e)

\* An aggregator that keeps the first finish reason it sees
AggregateOnFinishFirst(st, e) ==
  [full_content |-> IF e.data = "content-filter"
                      THEN Append(st.full_content, FilterNotice)
                      ELSE st.full_content,
   reason |-> IF st.reason = "stop" THEN e.data ELSE st.reason]

\* non_stream_response on ('finish', data)
AggregateOnFinish(st, e) ==
  [full_content |-> IF e.data = "content-filter"
                      THEN Append(st.full_content, FilterNotice)
                      ELSE st.full_content,
   reason |-> e.data]

\* The body of the `async for` of non_stream_response for one event; st
\* holds full_content and finish_reason.  An Error returns the error object
\* (AggregatedError) and leaves both as they are.
AggregateOn(st, e) ==
  IF e.type = "content"
    THEN [st EXCEPT !.full_content = Append(@, e.data)]
  ELSE IF e.type = "finish" THEN AggregateOnFinish(st, e)
  ELSE st

\* The events evs, one after the other, through the two formatters
RECURSIVE StreamAll(_, _)
StreamAll(st, evs) ==
  IF evs = <<>> THEN st ELSE StreamAll(StreamOn(st, Head(evs)), Tail(evs))
RECURSIVE AggregateAll(_, _)
AggregateAll(st, evs) ==
  IF evs = <<>> THEN st ELSE AggregateAll(AggregateOn(st, Head(evs)), Tail(evs))

\* The decoder of r yields the events evs to its formatter and then, when
\* ends holds, ends at the sentinel: stream_generator yields the closing
\* chunk with the reason it remembers, non_stream_response returns the
\* completion object.  (A call has one formatter; both are followed, as
\* for resp.)
Render(r, evs, ends) ==
  LET st == StreamAll([chunks |-> chunks[r],
                       reason |-> finish_reason_to_send[r]], evs)
      ag == AggregateAll([full_content |-> full_content[r],
                          reason |-> finish_reason[r]], evs)
  IN IF r \in logging
       THEN /\ chunks' = [chunks EXCEPT ![r] =
                           IF ends
                             THEN Append(st.chunks,
                                         format_openai_finish_chunk(st.reason))
                             ELSE st.chunks]
            /\ finish_reason_to_send' =
                 [finish_reason_to_send EXCEPT ![r] = st.reason]
            /\ full_content' = [full_content EXCEPT ![r] = ag.full_content]
            /\ finish_reason' = [finish_reason EXCEPT ![r] = ag.reason]
            /\ returned' = [returned EXCEPT ![r] =
                             IF ends
                               THEN format_openai_non_stream_response(
                                      ag.full_content, ag.reason)
                               ELSE @]
       ELSE UNCHANGED renderVars

\* ------------------------------------------------ _process_lmarena_stream
\* The formatter starts iterating the decoder: `response_channels.get(id)`.
\* A missing channel yields ('error', 'response channel not found').
DecoderStart(r) ==
  /\ pc[r] = "sent"
  /\ IF r \in response_channels
       THEN /\ pc' = [pc EXCEPT ![r] = "recv"]
            /\ UNCHANGED <<outcome, queue, events, renderVars>>
       ELSE /\ pc' = [pc EXCEPT ![r] = "yielded"]
            /\ outcome' = [outcome EXCEPT ![r] = MsgNoChannel]
            /\ events' = [events EXCEPT ![r] =
                            RecordAll(events[r], r, <<ErrorEvent(MsgNoChannel)>>)]
            /\ Render(r, <<ErrorEvent(MsgNoChannel)>>, FALSE)
            /\ queue' = Dropped(queue, r)
  /\ IF r \in response_channels
       THEN UNCHANGED resp
       ELSE resp' = [resp EXCEPT ![r] = AggregatedError(MsgNoChannel)]
  /\ UNCHANGED <<linkVars, response_channels,
                 IS_REFRESHING_FOR_VERIFICATION, sentOver, refreshSent,
                 logging, putlog, consumed, buffer, translateVars>>

\* handle_cloudflare_verification: the message it returns
VerificationMessage(flag) ==
  IF ~flag THEN MsgRefreshSent ELSE MsgAlreadyWaiting

\* A detection that sends the instruction whatever the flag says
VerificationRefreshAlways(flag, ws, sent) ==
  IF ws # None THEN [sent EXCEPT ![ws] = @ + 1] ELSE sent

\* handle_cloudflare_verification: the refresh frames sent after it
VerificationRefresh(flag, ws, sent) ==
  IF ~flag /\ ws # None THEN [sent EXCEPT ![ws] = @ + 1] ELSE sent

\* ---- step 1: an object with an "error" key
\* '413' in error_msg or 'too large' in error_msg.lower()
HasSizePhrase(d) == d \in {Dict413, Dict413Cf}
\* any(re.search(p, error_msg, re.IGNORECASE) for p in cloudflare_patterns)
HasMarker(d) == d \in {DictCf, Dict413Cf}
\* The message of the object, passed on by `yield 'error', error_msg`
RawMessage(d) ==
  IF d = DisconnectError THEN MsgDisconnected
  ELSE IF d = DictPhrase THEN MsgRawPhrase ELSE MsgRaw

\* The object calls handle_cloudflare_verification
DictVerifies(d) == ~HasSizePhrase(d) /\ HasMarker(d)

\* A classification that looks for the marker first
DictMessageMarkerFirst(d, flag) ==
  IF HasMarker(d) THEN VerificationMessage(flag)
  ELSE IF HasSizePhrase(d) THEN MsgTooLarge
  ELSE RawMessage(d)

\* The message of the Error yielded for the object d
DictMessage(d, flag) ==
  IF HasSizePhrase(d) THEN MsgTooLarge
  ELSE IF HasMarker(d) THEN VerificationMessage(flag)
  ELSE RawMessage(d)

\* ---- step 3: the buffer after `buffer += raw_data`
\* The first index of b holding a piece of S, 0 when there is none
FirstOf(b, S) ==
  IF \E i \in 1..Len(b) : b[i] \in S
    THEN CHOOSE i \in 1..Len(b) : b[i] \in S /\ \A j \in 1..(i - 1) : b[j] \notin S
    ELSE 0

\* b without its first n pieces: buffer[match.end():]
After(b, n) == SubSeq(b, n + 1, Len(b))

\* any(re.search(p, buffer, re.IGNORECASE) for p in cloudflare_patterns)
HasChallenge(b) == FirstOf(b, {"CF"}) # 0

\* error_pattern.search(buffer) and json.loads of the first match: the
\* message of the Error, "" when nothing matches or the match is not JSON
InlineMessage(b) ==
  LET i == FirstOf(b, {"E413", "EB"}) IN
    IF i = 0 THEN ""
    ELSE IF b[i] = "E413" THEN MsgRaw413 ELSE ""

\* A body that ends at the first double quote, escaped or not
RECURSIVE BodyEndAtAnyQuote(_, _)
BodyEndAtAnyQuote(b, p) ==
  IF p > Len(b) THEN 0
  ELSE IF b[p] = "Q" THEN p
  ELSE BodyEndAtAnyQuote(b, p + 1)

\* ((?:\\.|[^"\\])*)" matched from index p of b on: a backslash takes the
\* character after it along, any other character but a quote goes alone,
\* and the quote ends the match; the index of that quote, 0 when the
\* pattern does not match.  (The two alternatives exclude each other, so
\* there is nothing to backtrack to.)
RECURSIVE BodyEnd(_, _)
BodyEnd(b, p) ==
  IF p > Len(b) THEN 0
  ELSE IF b[p] = "Q" THEN p
  ELSE IF b[p] = "BS" THEN (IF p + 1 > Len(b) THEN 0 ELSE BodyEnd(b, p + 2))
  ELSE BodyEnd(b, p + 1)

\* json.loads(f'"{body}"') does not raise: every backslash of the body is
\* followed by a quote or a backslash (\h is no escape)
RECURSIVE ValidEscapes(_)
ValidEscapes(body) ==
  IF body = <<>> THEN TRUE
  ELSE IF Head(body) = "BS"
    THEN /\ Len(body) >= 2
         /\ body[2] \in {"BS", "Q"}
         /\ ValidEscapes(SubSeq(body, 3, Len(body)))
  ELSE ValidEscapes(Tail(body))

\* json.loads(f'"{body}"') of a body with valid escapes: the characters of
\* the text
RECURSIVE Unescape(_)
Unescape(body) ==
  IF body = <<>> THEN <<>>
  ELSE IF Head(body) = "BS"
    THEN <<IF body[2] = "Q" THEN "\"" ELSE "\\">> \o Unescape(SubSeq(body, 3, Len(body)))
  ELSE <<"h">> \o Unescape(Tail(body))

\* A complete text token starts at index i of b
TextAt(b, i) ==
  IF b[i] \in {"T", "TX"} THEN TRUE
  ELSE IF b[i] = "O" THEN BodyEnd(b, i + 1) # 0
  ELSE IF b[i] = "T1" /\ i < Len(b) THEN b[i + 1] = "T2" ELSE FALSE

\* text_pattern.search(buffer): where the first complete text token starts
\* and ends, 0 when there is none
TextStart(b) ==
  IF \E i \in 1..Len(b) : TextAt(b, i)
    THEN CHOOSE i \in 1..Len(b) :
           TextAt(b, i) /\ \A j \in 1..(i - 1) : ~TextAt(b, j)
    ELSE 0
TextEnd(b) ==
  IF TextStart(b) = 0 THEN 0
  ELSE IF b[TextStart(b)] \in {"T", "TX"} THEN TextStart(b)
  ELSE IF b[TextStart(b)] = "O" THEN BodyEnd(b, TextStart(b) + 1)
  ELSE TextStart(b) + 1

\* The events of the first complete text token of b: `if text_content:`
\* yields for a text that is not empty; ValueError is passed over
TextEvents(b) ==
  LET i == TextStart(b)
      body == SubSeq(b, i + 1, TextEnd(b) - 1)
  IN IF b[i] = "TX" THEN <<>>
     ELSE IF b[i] # "O" THEN <<ContentText>>
     ELSE IF ValidEscapes(body) /\ body # <<>>
       THEN <<[type |-> "content", data |-> Unescape(body)]>>
     ELSE <<>>

\* `while (match := text_pattern.search(buffer))`: yield, cut, again.
\* json.loads of the body of TX raises ValueError: `pass`, then the cut.
RECURSIVE ScanText(_, _)
ScanText(b, ev) ==
  IF TextEnd(b) = 0 THEN [buffer |-> b, events |-> ev, raised |-> FALSE]
  ELSE ScanText(After(b, TextEnd(b)), ev \o TextEvents(b))

\* `while (match := image_pattern.search(buffer))`: yield, cut, again.
\* IX: json.loads raises JSONDecodeError, caught, then the cut.  IN: no
\* "image" in the object, no event.  IB: `image_info.get` raises
\* AttributeError, which `except (json.JSONDecodeError, IndexError)` does
\* not catch: the generator raises.
RECURSIVE ScanImage(_, _)
ScanImage(b, ev) ==
  LET i == FirstOf(b, {"I", "IX", "IN", "IB"}) IN
    IF i = 0 THEN [buffer |-> b, events |-> ev, raised |-> FALSE]
    ELSE IF b[i] = "IB" THEN [buffer |-> b, events |-> ev, raised |-> TRUE]
    ELSE ScanImage(After(b, i),
                   IF b[i] = "I" THEN Append(ev, ContentImage) ELSE ev)

\* finish_data.get("finishReason", "stop") of the finish token p
FinishOf(p) ==
  IF p = "FL" THEN FinishLength ELSE IF p = "FC" THEN FinishFilter ELSE FinishStop

\* `if (finish_match := finish_pattern.search(buffer))`: once
\* (FX: json.loads raises JSONDecodeError, `pass`, then the cut)
ScanFinish(b, ev) ==
  LET i == FirstOf(b, FinishPieces \cup {"FX"}) IN
    IF i = 0 THEN [buffer |-> b, events |-> ev, raised |-> FALSE]
    ELSE [buffer |-> After(b, i),
          events |-> IF b[i] = "FX" THEN ev ELSE Append(ev, FinishOf(b[i])),
          raised |-> FALSE]

\* One pass over the buffer b: the events yielded and the buffer left
Scan(b) ==
  LET t == ScanText(b, <<>>)
      i == ScanImage(t.buffer, t.events)
  IN IF i.raised THEN i ELSE ScanFinish(i.buffer, i.events)

\* ---- step 2: the sentinel
\* A decoder that takes a finish token for the end of the response
IsSentinelOrFinish(d) == d = Done \/ (d \in Fragments /\ FirstOf(d, {"F"}) # 0)

\* `if raw_data == "[DONE]"`
IsSentinel(d) == d = Done

\* A decoder that scans what is left of the buffer when the sentinel comes
SentinelFlush(b) == Scan(b).events

\* The events yielded at the sentinel: `break`, the buffer b is dropped
SentinelEvents(b) == <<>>

\* ---- one item
\* The item d makes the decoder call handle_cloudflare_verification
Verifies(d, b) ==
  IF d \in ErrorDicts THEN DictVerifies(d)
  ELSE d # Done /\ HasChallenge(b \o d)

\* The error message the decoder yields for item d got with buffer b, ""
\* when it yields no error
ErrorOf(d, b, flag) ==
  IF d \in ErrorDicts THEN DictMessage(d, flag)
  ELSE IF d = Done THEN ""
  ELSE IF HasChallenge(b \o d) THEN VerificationMessage(flag)
  ELSE InlineMessage(b \o d)

\* The pass over item d got with buffer b raises: `buffer += raw_data` is a
\* TypeError for a payload that is neither a string nor a list, and the
\* media loop raises for IB (unless an Error ends the pass before it)
Raises(d, b, flag) ==
  /\ d \notin ErrorDicts \cup {Done}
  /\ \/ d \in BadPayloads
     \/ ErrorOf(d, b, flag) = "" /\ Scan(b \o d).raised

\* The events yielded in a pass that raises, before it does
RaisedEvents(d, b) == IF d \in BadPayloads THEN <<>> ELSE Scan(b \o d).events

\* queue.get() returns the oldest item; one pass of the `while True` body.
\* The events of one pass are yielded to a formatter that only collects
\* them, so the pass is taken as one step.
DecoderGet(r) ==
  /\ pc[r] = "recv"
  /\ queue[r] # <<>>
  /\ LET d == Head(queue[r])
         msg == ErrorOf(d, buffer[r], IS_REFRESHING_FOR_VERIFICATION)
         scan == Scan(buffer[r] \o d)
         raises == Raises(d, buffer[r], IS_REFRESHING_FOR_VERIFICATION)
     IN
       /\ queue' = IF IsSentinel(d) \/ raises THEN Dropped(queue, r)
                    ELSE [queue EXCEPT ![r] = Tail(queue[r])]
       /\ consumed' = [consumed EXCEPT ![r] = Record(consumed[r], r, d)]
       /\ IF IsSentinel(d)
            THEN \* break, then the finally block
                 /\ pc' = [pc EXCEPT ![r] = "closed"]
                 /\ outcome' = [outcome EXCEPT ![r] = "completed"]
                 /\ resp' = [resp EXCEPT ![r] = Http200]
                 /\ response_channels' = Release(response_channels, r)
                 /\ events' = [events EXCEPT ![r] =
                                 RecordAll(events[r], r, SentinelEvents(buffer[r]))]
                 /\ Render(r, SentinelEvents(buffer[r]), TRUE)
                 /\ UNCHANGED <<IS_REFRESHING_FOR_VERIFICATION, refreshSent,
                                buffer>>
            ELSE IF raises
            THEN \* the exception leaves the generator through the finally
                 \* block and goes on through the formatter: a streaming
                 \* response is cut short, an aggregated call is answered
                 \* by `except Exception` of chat_completions
                 /\ pc' = [pc EXCEPT ![r] = "closed"]
                 /\ outcome' = [outcome EXCEPT ![r] = "raised"]
                 /\ resp' = [resp EXCEPT ![r] = Http500Internal]
                 /\ response_channels' = Release(response_channels, r)
                 /\ events' = [events EXCEPT ![r] =
                                 RecordAll(events[r], r, RaisedEvents(d, buffer[r]))]
                 /\ Render(r, RaisedEvents(d, buffer[r]), FALSE)
                 /\ UNCHANGED <<IS_REFRESHING_FOR_VERIFICATION, refreshSent,
                                buffer>>
            ELSE IF msg # ""
            THEN \* yield 'error', ...: suspended at the yield
                 /\ pc' = [pc EXCEPT ![r] = "yielded"]
                 /\ outcome' = [outcome EXCEPT ![r] = msg]
                 /\ resp' = [resp EXCEPT ![r] = AggregatedError(msg)]
                 /\ events' = [events EXCEPT ![r] =
                                 RecordAll(events[r], r, <<ErrorEvent(msg)>>)]
                 /\ Render(r, <<ErrorEvent(msg)>>, FALSE)
                 /\ buffer' = [buffer EXCEPT ![r] =
                                 IF d \in ErrorDicts THEN @ ELSE @ \o d]
                 /\ IS_REFRESHING_FOR_VERIFICATION' =
                      (IS_REFRESHING_FOR_VERIFICATION \/ Verifies(d, buffer[r]))
                 /\ refreshSent' =
                      IF Verifies(d, buffer[r])
                        THEN VerificationRefresh(IS_REFRESHING_FOR_VERIFICATION,
                                                 browser_ws, refreshSent)
                        ELSE refreshSent
                 /\ UNCHANGED response_channels
            ELSE \* tokens: yield 'content' / 'finish', back to queue.get()
                 /\ buffer' = [buffer EXCEPT ![r] = scan.buffer]
                 /\ events' = [events EXCEPT ![r] =
                                 RecordAll(events[r], r, scan.events)]
                 /\ Render(r, scan.events, FALSE)
                 /\ UNCHANGED <<pc, outcome, resp, response_channels,
                                IS_REFRESHING_FOR_VERIFICATION, refreshSent>>
  /\ UNCHANGED <<linkVars, sentOver, logging, putlog, translateVars>>

\* A timeout after which the decoder waits again
DecoderTimeoutRetries(r) ==
  /\ pc[r] = "recv"
  /\ queue[r] = <<>>
  /\ outcome' = [outcome EXCEPT ![r] = MsgTimeout]
  /\ events' = [events EXCEPT ![r] =
                  RecordAll(events[r], r, <<ErrorEvent(MsgTimeout)>>)]
  /\ Render(r, <<ErrorEvent(MsgTimeout)>>, FALSE)
  /\ resp' = [resp EXCEPT ![r] = AggregatedError(MsgTimeout)]
  /\ UNCHANGED <<linkVars, response_channels, queue,
                 IS_REFRESHING_FOR_VERIFICATION, pc, sentOver, refreshSent,
                 logging, putlog, consumed, buffer, translateVars>>

\* asyncio.wait_for(queue.get(), timeout) raises TimeoutError: nothing
\* arrived for `timeout` seconds
DecoderTimeout(r) ==
  /\ pc[r] = "recv"
  /\ queue[r] = <<>>
  /\ pc' = [pc EXCEPT ![r] = "yielded"]
  /\ outcome' = [outcome EXCEPT ![r] = MsgTimeout]
  /\ events' = [events EXCEPT ![r] =
                  RecordAll(events[r], r, <<ErrorEvent(MsgTimeout)>>)]
  /\ Render(r, <<ErrorEvent(MsgTimeout)>>, FALSE)
  /\ resp' = [resp EXCEPT ![r] = AggregatedError(MsgTimeout)]
  /\ UNCHANGED <<linkVars, response_channels, queue,
                 IS_REFRESHING_FOR_VERIFICATION, sentOver, refreshSent,
                 logging, putlog, consumed, buffer, translateVars>>

\* A close that skips the finally block
DecoderCloseLeaks(r) ==
  /\ pc[r] = "yielded"
  /\ pc' = [pc EXCEPT ![r] = "closed"]
  /\ UNCHANGED <<linkVars, response_channels, queue,
                 IS_REFRESHING_FOR_VERIFICATION, resp, outcome, sentOver,
                 refreshSent, logVars>>

\* The formatter returned after the error event: the generator is closed at
\* its yield and the finally block runs
DecoderClose(r) ==
  /\ pc[r] = "yielded"
  /\ pc' = [pc EXCEPT ![r] = "closed"]
  /\ response_channels' = Release(response_channels, r)
  /\ queue' = Dropped(queue, r)
  /\ UNCHANGED <<linkVars, IS_REFRESHING_FOR_VERIFICATION, resp,
                 outcome, sentOver, refreshSent, logVars>>

\* A cancellation that goes through without the finally block
DecoderCancelLeaks(r) ==
  /\ pc[r] = "recv"
  /\ pc' = [pc EXCEPT ![r] = "closed"]
  /\ outcome' = [outcome EXCEPT ![r] = "cancelled"]
  /\ UNCHANGED <<linkVars, response_channels, queue,
                 IS_REFRESHING_FOR_VERIFICATION, resp, sentOver, refreshSent,
                 logVars>>

\* The caller's task is cancelled while the decoder waits in queue.get():
\* `except asyncio.CancelledError` logs and does not raise again, then the
\* finally block; the generator ends as it does at the sentinel, so the
\* formatter goes on to its closing chunk / completion object
DecoderCancel(r) ==
  /\ pc[r] = "recv"
  /\ pc' = [pc EXCEPT ![r] = "closed"]
  /\ outcome' = [outcome EXCEPT ![r] = "cancelled"]
  /\ resp' = [resp EXCEPT ![r] = Http200]
  /\ response_channels' = Release(response_channels, r)
  /\ queue' = Dropped(queue, r)
  /\ Render(r, <<>>, TRUE)
  /\ UNCHANGED <<linkVars, IS_REFRESHING_FOR_VERIFICATION,
                 sentOver, refreshSent, logging, putlog, consumed, buffer,
                 events, translateVars>>

\* ------------------------------------------------------ specification
LinkStep ==
  \E l \in Links :
    \/ Attach(l)
    \/ Disconnect(l)
    \/ ReceiveMalformed(l)
    \/ ReceiveIncomplete(l)
    \/ \E r \in ReqIds, d \in BrowserData : Dispatch(l, r, d)

CallStep ==
  \E r \in ReqIds :
    \/ RejectUnauthorized(r)
    \/ RejectUnavailable(r)
    \/ RejectBadSession(r)
    \/ \E uploads \in BOOLEAN, translates \in BOOLEAN :
         Register(r, uploads, translates)
    \/ UploadFail(r)
    \/ \E translates \in BOOLEAN : UploadDone(r, translates)
    \/ SendFail(r)

DecoderStep ==
  \E r \in ReqIds :
    \/ DecoderStart(r)
    \/ DecoderGet(r)
    \/ DecoderTimeout(r)
    \/ DecoderClose(r)
    \/ DecoderCancel(r)

Next == LinkStep \/ CallStep \/ DecoderStep

Spec == Init /\ [][Next]_vars

\* The same program with a browser that keeps its links connected: a link
\* ends only where the receive loop itself ends it
NextFrames ==
  \/ \E l \in Links :
       \/ Attach(l)
       \/ ReceiveMalformed(l)
       \/ ReceiveIncomplete(l)
       \/ \E r \in ReqIds, d \in BrowserData : Dispatch(l, r, d)
  \/ CallStep
  \/ DecoderStep

SpecFrames == Init /\ [][NextFrames]_vars

\* The same program with the put and get histories of request A recorded
SpecLogged == InitLogged /\ [][Next]_vars

\* The decoder of the one call of InitDecoder, fed the frames of a response
NextDecoder ==
  \/ \E d \in NextData("A") : StreamDispatch("L1", "A", d)
  \/ Disconnect("L1")
  \/ DecoderGet("A")
  \/ DecoderTimeout("A")
  \/ DecoderClose("A")

SpecDecoder == InitDecoder /\ [][NextDecoder]_vars

\* A frame of the response of request r arrives on link l, once the
\* decoder has taken the frame before it
FeedDispatch(l, r, d) ==
  /\ linkState[l] = "open"
  /\ queue[r] \in {<<>>, <<Done>>}
  /\ Route(r, d)
  /\ UNCHANGED <<linkVars, response_channels, IS_REFRESHING_FOR_VERIFICATION,
                 callVars, refreshSent, logging, consumed, buffer, events,
                 renderVars, translateVars>>

\* No sentinel and no error object was sent for r yet
OnlyText(r) ==
  \A i \in 1..Len(putlog[r]) :
    putlog[r][i] \notin ErrorDicts \cup BadPayloads \cup {Done}

\* The frames of a response that comes one token per frame, with any finish
\* reason, and ends with the sentinel or an error object (or goes silent)
RenderPieces == {"T", "I", "F", "FL", "FC"}
RenderData(r) ==
  IF ~OnlyText(r) THEN {}
  ELSE {Done, DictRaw}
       \cup (IF Len(putlog[r]) < MaxPieces
              THEN {<<p>> : p \in RenderPieces} ELSE {})

\* The decoder and the formatters of the one call of InitDecoder
NextRender ==
  \/ \E d \in RenderData("A") : FeedDispatch("L1", "A", d)
  \/ DecoderGet("A")
  \/ DecoderTimeout("A")
  \/ DecoderClose("A")

SpecRender == InitDecoder /\ [][NextRender]_vars

\* The frames of a response that holds text the decoder cannot interpret
\* next to text tokens, or a payload that is no text at all
OddData(r) ==
  IF ~OnlyText(r) THEN {}
  ELSE {Done} \cup BadPayloads
       \cup UNION {[1..n -> OddPieces \cup {"T"}] :
                     n \in 1..(MaxPieces - Len(Flatten(putlog[r])))}

\* The decoder of the one call of InitDecoder, fed such frames
NextOdd ==
  \/ \E d \in OddData("A") : FeedDispatch("L1", "A", d)
  \/ DecoderGet("A")
  \/ DecoderTimeout("A")
  \/ DecoderClose("A")

SpecOdd == InitDecoder /\ [][NextOdd]_vars

\* The text s is the opening of a text token followed by characters
Spelled(s) ==
  /\ s[1] = "O"
  /\ \A i \in 2..Len(s) : s[i] \in CharPieces

\* The frames of a response that is one text token spelled out and whatever
\* characters follow it, cut anywhere, then the sentinel
CharData(r) ==
  IF ~OnlyText(r) THEN {}
  ELSE {Done}
       \cup {d \in UNION {[1..n -> CharPieces \cup {"O"}] :
                            n \in 1..(MaxChars + 1 - Len(Flatten(putlog[r])))} :
               Spelled(Flatten(putlog[r]) \o d)}

\* The decoder of the one call of InitDecoder, fed such frames
NextChars ==
  \/ \E d \in CharData("A") : FeedDispatch("L1", "A", d)
  \/ DecoderGet("A")
  \/ DecoderTimeout("A")
  \/ DecoderClose("A")

SpecChars == InitDecoder /\ [][NextChars]_vars

\* The event loop runs every coroutine that is ready and fires every timer:
\* a finished upload resumes its call, a started response iterates its
\* decoder, a decoder with an item in its queue gets it, wait_for times out
\* on an empty queue, and a generator dropped at its yield is closed.
Fairness ==
  \A r \in ReqIds :
    /\ WF_vars(UploadFail(r) \/ \E translates \in BOOLEAN : UploadDone(r, translates))
    /\ WF_vars(DecoderStart(r))
    /\ WF_vars(DecoderGet(r))
    /\ WF_vars(DecoderTimeout(r))
    /\ WF_vars(DecoderClose(r))

FairSpec == Spec /\ Fairness

\* ------------------------------------------------------------ translator
\* convert_openai_to_lmarena_payload and _process_openai_message.  A text
\* is the sequence of its characters, so that strip, endswith, slicing and
\* join are the operations on characters that Python performs.
Whitespace == {" ", "\n"}
\* The literal "--bypass"
BypassSuffix == <<"-", "-", "b", "y", "p", "a", "s", "s">>
\* The separator of "\n\n".join
BlankLine == <<"\n", "\n">>

RECURSIVE lstrip(_)
lstrip(t) ==
  IF t # <<>> /\ Head(t) \in Whitespace THEN lstrip(Tail(t)) ELSE t

RECURSIVE rstrip(_)
rstrip(t) ==
  IF t # <<>> /\ t[Len(t)] \in Whitespace
    THEN rstrip(SubSeq(t, 1, Len(t) - 1))
    ELSE t

\* str.strip()
strip(t) == rstrip(lstrip(t))

\* str.endswith(suffix)
endswith(t, suffix) ==
  /\ Len(t) >= Len(suffix)
  /\ SubSeq(t, Len(t) - Len(suffix) + 1, Len(t)) = suffix

\* t[:-n] for n > 0
CutLast(t, n) == IF Len(t) > n THEN SubSeq(t, 1, Len(t) - n) ELSE <<>>

\* sep.join(ts)
RECURSIVE join(_, _)
join(sep, ts) ==
  IF ts = <<>> THEN <<>>
  ELSE IF Len(ts) = 1 THEN ts[1]
  ELSE ts[1] \o sep \o join(sep, Tail(ts))

\* The urls of image_url parts: base64 data urls of two pictures and of a
\* document; url.split(';')[0].split(':')[1] is the content type
ImageUrl == "data:image/png;base64,AAAA"
JpgUrl == "data:image/jpg;base64,AAAA"
DocumentUrl == "data:application/pdf;base64,AAAA"
content_type(url) ==
  CASE url = ImageUrl -> "image/png"
    [] url = JpgUrl -> "image/jpg"
    [] OTHER -> "application/pdf"
\* mimetypes.guess_extension: the table has no entry for image/jpg
guess_extension(ct) ==
  CASE ct = "image/png" -> ".png"
    [] ct = "application/pdf" -> ".pdf"
    [] OTHER -> None
\* contentType.startswith("image/")
IsImageType(ct) == ct \in {"image/png", "image/jpg"}

\* The parts of a list content, and the three kinds of content
TextPart(t) == [type |-> "text", text |-> t, url |-> None, detail |-> None]
ImagePart(u) ==
  [type |-> "image_url", text |-> <<>>, url |-> u, detail |-> None]
StrContent(t) == [kind |-> "str", text |-> t, parts |-> <<>>]
ListContent(ps) == [kind |-> "list", text |-> <<>>, parts |-> ps]
NoContent == [kind |-> "none", text |-> <<>>, parts |-> <<>>]

\* text_parts and attachments as the loop over the parts builds them
RECURSIVE text_parts(_)
text_parts(ps) ==
  IF ps = <<>> THEN <<>>
  ELSE IF Head(ps).type = "text"
    THEN <<Head(ps).text>> \o text_parts(Tail(ps))
    ELSE text_parts(Tail(ps))

\* Without a file name in "detail" the name is built from the extension
\* guessed for the content type; None.lstrip raises AttributeError, which
\* the except clause catches: the part gives no attachment
RECURSIVE attachments_of(_)
attachments_of(ps) ==
  IF ps = <<>> THEN <<>>
  ELSE IF Head(ps).type = "image_url"
          /\ (Head(ps).detail # None
                \/ guess_extension(content_type(Head(ps).url)) # None)
    THEN <<[contentType |-> content_type(Head(ps).url), url |-> Head(ps).url]>>
           \o attachments_of(Tail(ps))
    ELSE attachments_of(Tail(ps))

\* A message template; the key participantPosition is absent ("unset")
\* until the last step assigns it
Template(role, content, attachments) ==
  [role |-> role, content |-> content, attachments |-> attachments,
   participantPosition |-> "unset"]

\* _process_openai_message: text and attachments split, the blank text of a
\* user message replaced by one space
process_openai_message(message) ==
  LET content == message.content
      text_content ==
        CASE content.kind = "list" -> join(BlankLine, text_parts(content.parts))
          [] content.kind = "str" -> content.text
          [] OTHER -> <<>>
      attachments ==
        IF content.kind = "list" THEN attachments_of(content.parts) ELSE <<>>
  IN Template(message.role,
              IF message.role = "user" /\ strip(text_content) = <<>>
                THEN <<" ">>
                ELSE text_content,
              attachments)

\* Step 1: 'developer' becomes 'system', every message is processed
processed_messages(messages) ==
  [i \in 1..Len(messages) |->
     process_openai_message(
       IF messages[i].role = "developer"
         THEN [messages[i] EXCEPT !.role = "system"]
         ELSE messages[i])]

RECURSIVE SelectRole(_, _)
SelectRole(ms, keepSystem) ==
  IF ms = <<>> THEN <<>>
  ELSE IF (Head(ms).role = "system") = keepSystem
    THEN <<Head(ms)>> \o SelectRole(Tail(ms), keepSystem)
    ELSE SelectRole(Tail(ms), keepSystem)

\* The merge with the merged message put after the other messages
TavernMergeLast(ms) ==
  LET systems == SelectRole(ms, TRUE)
      system_prompts == [i \in 1..Len(systems) |-> systems[i].content]
      other_messages == SelectRole(ms, FALSE)
      merged_system_prompt == join(BlankLine, system_prompts)
  IN IF merged_system_prompt # <<>>
       THEN other_messages \o <<Template("system", merged_system_prompt, <<>>)>>
       ELSE other_messages

\* Step 2: tavern mode merges the system prompts into one leading message
TavernMerge(ms) ==
  LET systems == SelectRole(ms, TRUE)
      system_prompts == [i \in 1..Len(systems) |-> systems[i].content]
      other_messages == SelectRole(ms, FALSE)
      merged_system_prompt == join(BlankLine, system_prompts)
  IN IF merged_system_prompt # <<>>
       THEN <<Template("system", merged_system_prompt, <<>>)>> \o other_messages
       ELSE other_messages

\* Steps 1 to 4: the message templates before the special handling
BuildTemplates(messages, config) ==
  IF config.tavern_mode_enabled
    THEN TavernMerge(processed_messages(messages))
    ELSE processed_messages(messages)

has_images(attachments) ==
  \E i \in 1..Len(attachments) : IsImageType(attachments[i].contentType)

fake_user_msg == Template("user", <<"H", "i">>, <<>>)

\* The transform with the attachments left on the user message as well
CompatTransformCopies(templates) ==
  IF templates # <<>> /\ templates[Len(templates)].role = "user"
     /\ endswith(strip(templates[Len(templates)].content), BypassSuffix)
     /\ has_images(templates[Len(templates)].attachments)
    THEN LET n == Len(templates)
             last_msg == templates[n]
             fake_assistant_msg == Template("assistant", <<>>, last_msg.attachments)
             inserted ==
               SubSeq(templates, 1, n - 1) \o
                 <<fake_assistant_msg,
                   [last_msg EXCEPT !.content = strip(CutLast(strip(@), 9))]>>
         IN IF inserted[1].role = "assistant"
              THEN <<fake_user_msg>> \o inserted
              ELSE inserted
    ELSE templates

\* Step 4.5: a last user message that ends with --bypass and carries a
\* picture gives its attachments to a fake assistant message put before it
CompatTransform(templates) ==
  IF templates # <<>> /\ templates[Len(templates)].role = "user"
     /\ endswith(strip(templates[Len(templates)].content), BypassSuffix)
     /\ templates[Len(templates)].attachments # <<>>
     /\ has_images(templates[Len(templates)].attachments)
    THEN LET n == Len(templates)
             last_msg == templates[n]
             fake_assistant_msg == Template("assistant", <<>>, last_msg.attachments)
             inserted ==
               SubSeq(templates, 1, n - 1) \o
                 <<fake_assistant_msg,
                   [last_msg EXCEPT !.content = strip(CutLast(strip(@), 9)),
                                    !.attachments = <<>>]>>
         IN IF inserted[1].role = "assistant"
              THEN <<fake_user_msg>> \o inserted
              ELSE inserted
    ELSE templates

\* Step 5: bypass mode appends a user message of one space, for text models
BypassMode(templates, config, info) ==
  IF config.bypass_enabled
     /\ (IF info.type = None THEN "text" ELSE info.type) = "text"
    THEN Append(templates,
                [role |-> "user", content |-> <<" ">>, attachments |-> <<>>,
                 participantPosition |-> "a"])
    ELSE templates

\* str.lower() of a participant name
lower(p) == IF p = "A" THEN "a" ELSE IF p = "B" THEN "b" ELSE p

\* The positions taken from the global configuration alone
ParticipantPositionsGlobal(templates, config, modeArg, targetArg) ==
  [i \in 1..Len(templates) |->
     [templates[i] EXCEPT !.participantPosition =
        IF config.id_updater_last_mode = "battle"
          THEN lower(config.id_updater_battle_target)
          ELSE IF templates[i].role = "system" THEN "b" ELSE "a"]]

\* Step 6: the participant position of every message
ParticipantPositions(templates, config, modeArg, targetArg) ==
  LET mode == IF modeArg # None THEN modeArg ELSE config.id_updater_last_mode
      target_participant ==
        lower(IF targetArg # None THEN targetArg
                                  ELSE config.id_updater_battle_target)
  IN [i \in 1..Len(templates) |->
        [templates[i] EXCEPT !.participantPosition =
           IF templates[i].role = "system"
             THEN IF mode = "battle" THEN target_participant ELSE "b"
             ELSE IF mode = "battle" THEN target_participant ELSE "a"]]

\* The translator, one action per numbered step of the function
TranslateMessages ==
  /\ tpc = "messages"
  /\ message_templates' = BuildTemplates(openai_req, CONFIG)
  /\ tpc' = "special"
  /\ UNCHANGED <<linkVars, response_channels, queue,
                 IS_REFRESHING_FOR_VERIFICATION, callVars, refreshSent,
                 logging, putlog, consumed, buffer, events, renderVars,
                 openai_req, CONFIG, model_info, mode_override,
                 battle_target_override>>

TranslateSpecial ==
  /\ tpc = "special"
  /\ message_templates' = CompatTransform(message_templates)
  /\ tpc' = "bypass"
  /\ UNCHANGED <<linkVars, response_channels, queue,
                 IS_REFRESHING_FOR_VERIFICATION, callVars, refreshSent,
                 logging, putlog, consumed, buffer, events, renderVars,
                 openai_req, CONFIG, model_info, mode_override,
                 battle_target_override>>

TranslateFinish ==
  /\ tpc = "bypass"
  /\ message_templates' =
       ParticipantPositions(BypassMode(message_templates, CONFIG, model_info),
                            CONFIG, mode_override, battle_target_override)
  /\ tpc' = "done"
  /\ UNCHANGED <<linkVars, response_channels, queue,
                 IS_REFRESHING_FOR_VERIFICATION, callVars, refreshSent,
                 logging, putlog, consumed, buffer, events, renderVars,
                 openai_req, CONFIG, model_info, mode_override,
                 battle_target_override>>

\* The requests translated: up to MaxPrior plain messages, then one message
\* whose text may end with the suffix and which may carry attachments
Texts ==
  {h \o m \o e : h \in {<<>>, <<" ">>, <<"x">>, <<"x", " ">>},
                 m \in {<<>>, BypassSuffix}, e \in {<<>>, <<" ">>}}
    \cup {BypassSuffix \o <<" ", "x">>}
AttachmentParts ==
  {<<>>, <<ImagePart(ImageUrl)>>, <<ImagePart(DocumentUrl)>>,
   <<ImagePart(DocumentUrl), ImagePart(ImageUrl)>>, <<ImagePart(JpgUrl)>>,
   <<[ImagePart(JpgUrl) EXCEPT !.detail = "p.jpg"]>>}
Contents ==
  {StrContent(t) : t \in Texts}
    \cup {ListContent(<<TextPart(t)>> \o a) : t \in Texts, a \in AttachmentParts}
    \cup {ListContent(<<TextPart(<<"x">>), TextPart(BypassSuffix),
                        ImagePart(ImageUrl)>>),
          ListContent(<<ImagePart(ImageUrl), TextPart(<<"x">>),
                        ImagePart(DocumentUrl), TextPart(<<" ">>)>>),
          ListContent(<<ImagePart(ImageUrl)>>), NoContent}
PlainMessages ==
  {[role |-> role, content |-> StrContent(t)] :
     role \in {"user", "assistant", "system", "developer"},
     t \in {<<>>, <<"x">>}}
PlainRequests(longest) == UNION {[1..n -> PlainMessages] : n \in 0..longest}
Requests ==
  {p \o <<[role |-> role, content |-> c]>> :
     p \in PlainRequests(MaxPrior),
     role \in {"user", "assistant", "system"}, c \in Contents}
\* Plain messages, followed or not by a user message that ends with the
\* suffix and carries a picture
ModeRequests ==
  {p \o t :
     p \in PlainRequests(MaxPrior),
     t \in {<<>>,
            <<[role |-> "user",
               content |->
                 ListContent(<<TextPart(<<"x", " ">> \o BypassSuffix),
                               ImagePart(ImageUrl)>>)]>>}}
    \ {<<>>}

\* The entries of MODEL_NAME_TO_ID_MAP: a text model, an image model, and
\* the empty dict of a model that models.json does not list
ModelInfos == {[type |-> "text"], [type |-> "image"], [type |-> None]}

InitTranslate ==
  /\ browser_ws = None
  /\ linkState = [l \in Links |-> "new"]
  /\ response_channels = {}
  /\ queue = [r \in ReqIds |-> <<>>]
  /\ IS_REFRESHING_FOR_VERIFICATION = FALSE
  /\ pc = [r \in ReqIds |-> "start"]
  /\ resp = [r \in ReqIds |-> "none"]
  /\ outcome = [r \in ReqIds |-> "none"]
  /\ sentOver = [r \in ReqIds |-> None]
  /\ refreshSent = [l \in Links |-> 0]
  /\ logging = {}
  /\ putlog = [r \in ReqIds |-> <<>>]
  /\ consumed = [r \in ReqIds |-> <<>>]
  /\ buffer = [r \in ReqIds |-> <<>>]
  /\ events = [r \in ReqIds |-> <<>>]
  /\ chunks = [r \in ReqIds |-> <<>>]
  /\ finish_reason_to_send = [r \in ReqIds |-> "stop"]
  /\ full_content = [r \in ReqIds |-> <<>>]
  /\ finish_reason = [r \in ReqIds |-> "stop"]
  /\ returned = [r \in ReqIds |-> NoObject]
  /\ \/ /\ openai_req \in Requests
        /\ CONFIG \in [tavern_mode_enabled : BOOLEAN, bypass_enabled : BOOLEAN,
                       id_updater_last_mode : {"direct_chat"},
                       id_updater_battle_target : {"A"}]
        /\ model_info \in ModelInfos
        /\ mode_override = None
        /\ battle_target_override = None
     \/ /\ openai_req \in ModeRequests
        /\ CONFIG \in [tavern_mode_enabled : BOOLEAN, bypass_enabled : BOOLEAN,
                       id_updater_last_mode : {"direct_chat", "battle"},
                       id_updater_battle_target : {"A", "B"}]
        /\ model_info \in ModelInfos
        /\ mode_override \in {"direct_chat", "battle", None}
        /\ battle_target_override \in {"A", "B", None}
     \/ /\ openai_req \in PlainRequests(MaxMessages) \ {<<>>}
        /\ CONFIG \in [tavern_mode_enabled : BOOLEAN, bypass_enabled : {FALSE},
                       id_updater_last_mode : {"direct_chat"},
                       id_updater_battle_target : {"A"}]
        /\ model_info = [type |-> "text"]
        /\ mode_override = None
        /\ battle_target_override = None
  /\ message_templates = <<>>
  /\ tpc = "messages"

NextTranslate == TranslateMessages \/ TranslateSpecial \/ TranslateFinish

SpecTranslate == InitTranslate /\ [][NextTranslate]_vars

TypeOK ==
  /\ browser_ws \in Links \cup {None}
  /\ linkState \in [Links -> {"new", "open", "closed"}]
  /\ response_channels \subseteq ReqIds
  /\ IS_REFRESHING_FOR_VERIFICATION \in BOOLEAN
  /\ pc \in [ReqIds -> {"start", "rejected", "upload", "failed", "sent",
                        "recv", "yielded", "closed"}]
  /\ \A r \in ReqIds :
       /\ resp[r] \in {"none"} \cup HttpAnswers
       /\ outcome[r] \in {"none", "completed", "cancelled", "raised"} \cup ErrorMsgs
       /\ sentOver[r] \in Links \cup {None}
       /\ Len(queue[r]) <= MaxLog + MaxQueue + MaxPieces + 2
       /\ Len(putlog[r]) <= MaxLog + MaxPieces + 2
       /\ buffer[r] \in Seq(Pieces \cup FinishPieces \cup OddPieces
                             \cup CharPieces \cup {"O"})
       /\ finish_reason[r] = finish_reason_to_send[r]
       /\ \A i \in 1..Len(events[r]) :
            events[r][i].type \in {"content", "finish", "error"}
  /\ \A l \in Links : refreshSent[l] \in Nat
  /\ logging \subseteq ReqIds
  /\ tpc \in {"idle", "messages", "special", "bypass", "done"}
  /\ \A i \in 1..Len(message_templates) :
       message_templates[i].role \in {"user", "assistant", "system"}

\* ------------------------------------------------------------ properties
Last(q) == q[Len(q)]
IsPrefix(p, q) == Len(p) <= Len(q) /\ SubSeq(q, 1, Len(p)) = p
Other(r) == CHOOSE o \in ReqIds : o # r

\* A step in which some link attaches / runs its finally block
AttachStep == \E l \in Links : linkState[l] = "new" /\ linkState'[l] = "open"
TeardownStep == \E l \in Links : linkState[l] = "open" /\ linkState'[l] = "closed"

\* r's decoder is iterating a queue that a teardown took out of the table
TornDown(r) == pc[r] = "recv" /\ r \notin response_channels

\* The teardown puts the error into every registered queue, then clears
TeardownPuts ==
  TeardownStep =>
    /\ \A r \in response_channels : queue'[r] = Append(queue[r], DisconnectError)
    /\ response_channels' = {}

\* C1 as claimed: a link teardown appends the synthetic error fragment to
\* the inbox of every registered request before it clears the table, and
\* the decoder of each such request, unless its caller cancels it, ends
\* with an Error event.
C1_AsClaimed ==
  [][/\ TeardownPuts
     /\ \A r \in ReqIds :
          (TornDown(r) /\ pc'[r] # "recv" /\ outcome'[r] # "cancelled")
            => outcome'[r] \in ErrorMsgs]_vars

\* C1 (amended): a link teardown appends the synthetic error fragment to
\* the inbox of every registered request before it clears the table, so a
\* decoder reading such an inbox never waits on an empty queue and always
\* ends: with an Error event, unless the sentinel was queued ahead of the
\* error fragment (normal completion) or the caller cancels it.
C1_Disconnect ==
  /\ [][TeardownPuts]_vars
  /\ [](\A r \in ReqIds :
          TornDown(r) => queue[r] # <<>> /\ Last(queue[r]) = DisconnectError)
  /\ [][\A r \in ReqIds :
          (TornDown(r) /\ pc'[r] # "recv") =>
            \/ outcome'[r] \in ErrorMsgs
            \/ outcome'[r] = "completed" /\ Head(queue[r]) = Done
            \/ outcome'[r] = "cancelled"]_vars
  /\ \A r \in ReqIds : TornDown(r) ~> (pc[r] # "recv")

\* Both requests were decoding at a teardown and ended with its Error
C1_Witness ==
  \A r \in ReqIds : outcome[r] = MsgDisconnected /\ pc[r] = "yielded"

\* The error fragment the specification has attach put into the inboxes
LinkSuperseded == "superseded"

\* C2: when a link attaches while another link is the current one, every
\* registered request gets a "link superseded" error in its inbox and is
\* removed from the request table.
C2_Supersession ==
  [][(AttachStep /\ browser_ws # None) =>
       \A r \in response_channels :
         /\ queue'[r] = Append(queue[r], LinkSuperseded)
         /\ r \notin response_channels']_vars

\* The link that attached last
Newest ==
  IF linkState["L2"] # "new" THEN "L2"
  ELSE IF linkState["L1"] # "new" THEN "L1" ELSE None

\* C3: the link that attached last is the current link for as long as it is
\* connected, whatever happens to the links it superseded.
C3_NewestWins ==
  \A l \in Links : (l = Newest /\ linkState[l] = "open") => browser_ws = l

\* A step in which r's decoder detects a challenge page
Detects(r) ==
  /\ outcome[r] = "none"
  /\ outcome'[r] \in {MsgRefreshSent, MsgAlreadyWaiting}

\* C4: between two attaches the flag rises at most once and at most one
\* refresh instruction is sent: a detection with the flag unset sets it and
\* yields "refresh sent", a detection with the flag set yields "already
\* awaiting" and sends nothing, and nothing else sends a refresh.
C4_VerificationOnce ==
  /\ [](\A l \in Links : refreshSent[l] <= 1)
  /\ [][/\ \A r \in ReqIds :
             Detects(r) =>
               /\ IS_REFRESHING_FOR_VERIFICATION'
               /\ outcome'[r] = IF IS_REFRESHING_FOR_VERIFICATION
                                  THEN MsgAlreadyWaiting ELSE MsgRefreshSent
               /\ IS_REFRESHING_FOR_VERIFICATION => refreshSent' = refreshSent
        /\ (refreshSent' # refreshSent) =>
             /\ ~IS_REFRESHING_FOR_VERIFICATION
             /\ \E r \in ReqIds : Detects(r)
             /\ browser_ws # None
             /\ refreshSent' = [refreshSent EXCEPT ![browser_ws] = @ + 1]
        /\ (IS_REFRESHING_FOR_VERIFICATION /\ ~AttachStep) =>
             IS_REFRESHING_FOR_VERIFICATION']_vars

\* Two concurrent decoders both detected the challenge page on one link:
\* the first got "refresh sent", the second "already awaiting"
C4_Witness ==
  /\ outcome["A"] = MsgRefreshSent
  /\ outcome["B"] = MsgAlreadyWaiting
  /\ sentOver["A"] = sentOver["B"]
  /\ refreshSent[sentOver["A"]] = 1

\* C5: every attach leaves the flag unset; the flag rises only in a step in
\* which a decoder detects a challenge page, and falls only in an attach.
C5_FlagReset ==
  [][/\ AttachStep => ~IS_REFRESHING_FOR_VERIFICATION'
     /\ (~IS_REFRESHING_FOR_VERIFICATION /\ IS_REFRESHING_FOR_VERIFICATION') =>
          \E r \in ReqIds : Detects(r) /\ outcome'[r] = MsgRefreshSent
     /\ (IS_REFRESHING_FOR_VERIFICATION /\ ~IS_REFRESHING_FOR_VERIFICATION') =>
          AttachStep]_vars

\* The flag was set by a detection and a later attach cleared it
C5_Witness ==
  /\ ~IS_REFRESHING_FOR_VERIFICATION
  /\ \E r \in ReqIds : outcome[r] = MsgRefreshSent
  /\ linkState["L2"] = "open"

\* C6: a frame for request id r with data d appends d to the queue
\* registered under r and to no other queue; a frame for an id that is not
\* registered changes neither the table, nor any queue, nor the current
\* link, nor the flag.
C6_DispatchRoutes ==
  [][\A l \in Links, r \in ReqIds, d \in BrowserData :
       Dispatch(l, r, d) =>
         /\ UNCHANGED <<response_channels, browser_ws, linkState,
                        IS_REFRESHING_FOR_VERIFICATION>>
         /\ \A o \in ReqIds \ {r} : queue'[o] = queue[o]
         /\ queue'[r] = IF r \in response_channels
                          THEN Append(queue[r], d) ELSE queue[r]]_vars

\* A frame has been routed to A while B, registered too, got nothing
C6_Witness ==
  /\ response_channels = ReqIds
  /\ Len(queue["A"]) = MaxQueue
  /\ queue["B"] = <<>>

\* C7: the decoder of a request gets the items of its queue in the order
\* they were put, none twice, none skipped: what it has consumed, followed
\* by what still waits, is what was put.
C7_Fifo ==
  \A r \in logging :
    /\ IsPrefix(consumed[r], putlog[r])
    /\ pc[r] \in {"upload", "sent", "recv", "yielded"} /\ queue[r] # <<>>
         => putlog[r] = consumed[r] \o queue[r]

\* A decoder consumed two different fragments while the other request had
\* fragments of its own in flight
C7_Witness ==
  \E r \in logging :
    /\ Len(consumed[r]) >= 2
    /\ consumed[r][1] # consumed[r][2]
    /\ queue[Other(r)] # <<>>

\* The decoder of r has ended (sentinel, Error, timeout, teardown Error)
DecoderEnded(r) == pc[r] \in {"yielded", "closed"}

\* C8: once a request's decoder has ended, its id eventually leaves the
\* request table, and an id that has left the table never enters it again.
C8_ReleasedOnce ==
  /\ \A r \in ReqIds : DecoderEnded(r) ~> (r \notin response_channels)
  /\ [][\A r \in ReqIds :
          (r \notin response_channels /\ r \in response_channels') =>
            pc[r] = "start"]_vars
  /\ [](\A r \in ReqIds : pc[r] = "closed" => r \notin response_channels)

\* The formatter stopped at an Error while the id was still in the table
C8_Witness ==
  \E r \in ReqIds :
    /\ pc[r] = "yielded"
    /\ outcome[r] \in {MsgRefreshSent, MsgAlreadyWaiting, MsgTimeout}
    /\ r \in response_channels

\* A step in which r's call or decoder runs its release
Releases(r) == pc[r] \notin {"closed", "failed"} /\ pc'[r] \in {"closed", "failed"}

\* C9: a release removes r from the table and nothing else; when r is
\* already absent it leaves the table as it is.
C9_ReleaseIdempotent ==
  [][\A r \in ReqIds :
       Releases(r) =>
         /\ response_channels' = response_channels \ {r}
         /\ r \notin response_channels => UNCHANGED response_channels]_vars

\* The decoder released an id that a teardown had already removed
C9_Witness ==
  \E r \in ReqIds :
    /\ pc[r] = "closed"
    /\ outcome[r] = MsgDisconnected
    /\ response_channels = {Other(r)}

\* C10: a call that cannot send its payload because no link is active is
\* answered 503, at the availability check and after it.
C10_Always503 ==
  \A r \in ReqIds : resp[r] \in {Http503, Http500NoLink} => resp[r] = Http503

\* The call of r is over: answered with an error, or its decoder has ended
Terminal(r) == pc[r] \in {"failed", "yielded", "closed"}

\* C11: every registered request eventually reaches a terminal outcome
\* (completion at the sentinel, an Error event, the timeout Error), whatever
\* frames, attaches and disconnects arrive, frames that keep arriving
\* without a sentinel included.
C11_NoHang ==
  \A r \in ReqIds : (r \in response_channels) ~> Terminal(r)

\* A step in which r's wait for a frame times out
TimesOut(r) == pc[r] = "recv" /\ outcome'[r] = MsgTimeout

\* C12: a decoder that got no frame at all when its wait times out yields
\* exactly one event, the timed-out Error, and no Content or Finish; it then
\* stops, and when it is closed its id is out of the request table.
C12_TimeoutBoundary ==
  /\ [][\A r \in logging :
          TimesOut(r) =>
            /\ queue[r] = <<>>
            /\ events'[r] = Append(events[r], ErrorEvent(MsgTimeout))
            /\ pc'[r] = "yielded"]_vars
  /\ [](\A r \in logging :
          (outcome[r] = MsgTimeout /\ consumed[r] = <<>>) =>
            /\ events[r] = <<ErrorEvent(MsgTimeout)>>
            /\ pc[r] \in {"yielded", "closed"}
            /\ pc[r] = "closed" => r \notin response_channels)
  /\ [][\A r \in logging :
          (outcome[r] = MsgTimeout /\ pc'[r] # pc[r]) =>
            pc'[r] = "closed" /\ r \notin response_channels']_vars

\* The wait timed out before any frame came; a frame came later, too late
C12_Witness ==
  /\ outcome["A"] = MsgTimeout
  /\ consumed["A"] = <<>>
  /\ pc["A"] = "closed"

\* A step in which r's decoder gets the sentinel
GetsSentinel(r) == consumed'[r] = Append(consumed[r], Done)

\* C13: the step in which the decoder gets the sentinel yields no event,
\* whatever is left in the buffer, and ends the decoder; no event follows,
\* whatever is dispatched for the request afterwards.
C13_SentinelEnds ==
  /\ [][\A r \in logging :
          GetsSentinel(r) =>
            /\ events'[r] = events[r]
            /\ outcome'[r] = "completed"
            /\ pc'[r] = "closed"]_vars
  /\ [][\A r \in logging :
          outcome[r] = "completed" =>
            /\ events'[r] = events[r]
            /\ outcome'[r] = "completed"
            /\ pc'[r] = "closed"]_vars

\* The decoder ended at the sentinel with a complete finish token still in
\* its buffer and a frame that came after the sentinel still in its queue
C13_Witness ==
  /\ outcome["A"] = "completed"
  /\ FirstOf(buffer["A"], {"F"}) # 0
  /\ Len(putlog["A"]) > Len(consumed["A"])

\* The events of ev of the given type
OfType(ev, type) == SelectSeq(ev, LAMBDA e : e.type = type)

\* A step in which r's decoder gets the frame d
Gets(r, d) == consumed'[r] = Append(consumed[r], d)

\* b holds a challenge-page marker or an inline error object that is JSON
\* (E413 with a string for its message, EB with an object)
HoldsError(b) == \E i \in 1..Len(b) : b[i] \in {"CF", "E413", "EB"}

C14_Example == consumed["A"] = <<Tok, <<"F">>, Done>>

\* The events r's decoder yields in the step
NewEvents(r) == SubSeq(events'[r], Len(events[r]) + 1, Len(events'[r]))

\* The buffer of r's decoder after it has added the frame d
Added(r, d) == buffer[r] \o d

\* C15: when the buffer, after a frame has been added, holds a
\* challenge-page marker or a parseable inline error object, the decoder
\* yields exactly one Error for that frame, no Content and no Finish, and
\* stops.
C15_ErrorFirst ==
  [][\A r \in logging : \A d \in Fragments :
       (Gets(r, d) /\ HoldsError(Added(r, d))) =>
         /\ Len(NewEvents(r)) = 1
         /\ NewEvents(r)[1].type = "error"
         /\ pc'[r] = "yielded"]_vars

\* The complete tokens of the kind whose pieces are in S, in the text s
Tokens(s, S) == SelectSeq(s, LAMBDA p : p \in S)

\* C16: every complete token that arrives before the sentinel yields its
\* event: as long as no Error was yielded, there are as many text Contents
\* as complete text tokens got, as many media Contents as media tokens and
\* as many Finishes as finish tokens.
C16_EveryToken ==
  \A r \in logging :
    (outcome[r] \in {"none", "completed"} /\ pc[r] \in {"recv", "closed"}) =>
      LET s == Flatten(consumed[r]) IN
        /\ Len(SelectSeq(events[r], LAMBDA e : e = ContentText))
             = Len(Tokens(s, {"T", "T2"}))
        /\ Len(SelectSeq(events[r], LAMBDA e : e = ContentImage))
             = Len(Tokens(s, {"I"}))
        /\ Len(OfType(events[r], "finish")) = Len(Tokens(s, {"F"}))

\* The text s cut into frames of one complete token each
RECURSIVE OnePerFrame(_)
OnePerFrame(s) ==
  IF s = <<>> THEN <<>>
  ELSE IF Head(s) = "T1" /\ Len(s) >= 2
    THEN <<SubSeq(s, 1, 2)>> \o OnePerFrame(SubSeq(s, 3, Len(s)))
    ELSE <<<<Head(s)>>>> \o OnePerFrame(Tail(s))

\* The events the decoder yields for the frames fs, from the buffer b on
RECURSIVE Decoded(_, _)
Decoded(fs, b) ==
  IF fs = <<>> THEN <<>>
  ELSE Scan(b \o Head(fs)).events \o Decoded(Tail(fs), Scan(b \o Head(fs)).buffer)

\* The text s is made of complete text, media and finish tokens
OnlyTokens(s) ==
  /\ \A i \in 1..Len(s) : s[i] \in TokenPieces
  /\ s # <<>> => s[Len(s)] # "T1"

\* C17: for a response made of complete text, media and finish tokens and
\* the sentinel, the events yielded up to completion are those of the same
\* text cut one token per frame, however the frames were cut.
C17_CutIndependent ==
  \A r \in logging :
    (outcome[r] = "completed" /\ OnlyTokens(Flatten(consumed[r]))) =>
      events[r] = Decoded(OnePerFrame(Flatten(consumed[r])), <<>>)

\* C18: an error object always ends the request with exactly one Error,
\* classified in this order: a size-limit phrase in the message gives the
\* attachment-too-large Error; otherwise a challenge-page marker gives a
\* verification Error; otherwise the Error carries the message as it came.
\* No event follows an Error.
C18_ErrorObject ==
  /\ [][\A r \in logging : \A d \in ErrorDicts :
          Gets(r, d) =>
            /\ pc'[r] = "yielded"
            /\ Len(NewEvents(r)) = 1
            /\ NewEvents(r)[1].type = "error"
            /\ outcome'[r] = NewEvents(r)[1].data
            /\ d \in {Dict413, Dict413Cf} => outcome'[r] = MsgTooLarge
            /\ d = DictCf => outcome'[r] \in {MsgRefreshSent, MsgAlreadyWaiting}
            /\ d = DictRaw => outcome'[r] = MsgRaw
            /\ d = DictPhrase => outcome'[r] = MsgRawPhrase
            /\ d = DisconnectError => outcome'[r] = MsgDisconnected]_vars
  /\ [][\A r \in logging :
          outcome[r] \in ErrorMsgs =>
            events'[r] = events[r] /\ outcome'[r] = outcome[r]]_vars

\* After some Content, an error object whose message holds both a size-limit
\* phrase and a challenge-page marker ended the request as too large
C18_Witness ==
  /\ outcome["A"] = MsgTooLarge
  /\ Len(consumed["A"]) = 2
  /\ consumed["A"][2] = Dict413Cf
  /\ events["A"] = <<ContentText, ErrorEvent(MsgTooLarge)>>

\* The first inline error object of b, "" when it has none
FirstErrorPiece(b) ==
  IF FirstOf(b, {"E413", "EB"}) = 0 THEN "" ELSE b[FirstOf(b, {"E413", "EB"})]

\* C19: an inline error object in the buffer is classified as an error
\* object is: when its message holds the size-limit phrase, the Error is the
\* attachment-too-large one and the aggregated answer is 413
\* attachment_too_large.
C19_InlineTooLarge ==
  [][\A r \in logging : \A d \in Fragments :
       (Gets(r, d) /\ FirstErrorPiece(Added(r, d)) = "E413"
          /\ ~HasChallenge(Added(r, d))) =>
         /\ outcome'[r] = MsgTooLarge
         /\ resp'[r] = Http413TooLarge]_vars

\* C20: when the decoder ends with an Error the aggregated answer is an
\* error object, never a completion: 413 attachment_too_large exactly when
\* the Error is the attachment-too-large one, 500 processing_error for every
\* other Error.
C20_AggregatedError ==
  \A r \in ReqIds :
    outcome[r] \in ErrorMsgs =>
      /\ resp[r] \in {Http413TooLarge, Http500Processing}
      /\ resp[r] = Http413TooLarge <=> outcome[r] = MsgTooLarge

\* The reason of the last Finish of ev, "stop" when it has none
LastReason(ev) ==
  IF OfType(ev, "finish") = <<>> THEN "stop"
  ELSE OfType(ev, "finish")[Len(OfType(ev, "finish"))].data

\* One content chunk per Content of ev, in order
RECURSIVE ContentChunks(_)
ContentChunks(ev) ==
  IF ev = <<>> THEN <<>>
  ELSE (IF Head(ev).type = "content"
          THEN <<format_openai_chunk(<<Head(ev).data>>)>> ELSE <<>>)
       \o ContentChunks(Tail(ev))

\* One content chunk per Content of ev and one notice chunk per
\* "content-filter" Finish of ev, in order
RECURSIVE ContentAndNoticeChunks(_)
ContentAndNoticeChunks(ev) ==
  IF ev = <<>> THEN <<>>
  ELSE (IF Head(ev).type = "content"
          THEN <<format_openai_chunk(<<Head(ev).data>>)>>
        ELSE IF Head(ev) = FinishFilter
          THEN <<format_openai_chunk(<<FilterNotice>>)>>
        ELSE <<>>)
       \o ContentAndNoticeChunks(Tail(ev))

\* C22 as claimed: when the events end at the sentinel the stream is one
\* content chunk per Content, in order, then one closing chunk with the last
\* Finish reason ("stop" if none) and the end-of-stream marker; a Finish
\* yields no chunk.
C22_AsClaimed ==
  \A r \in logging :
    outcome[r] = "completed" =>
      chunks[r] = Append(ContentChunks(events[r]),
                         format_openai_finish_chunk(LastReason(events[r])))

\* C22 as amended: the same, except that a Finish with the reason
\* "content-filter" yields one content chunk with a fixed notice, in event
\* order; the chunks of the events are out as soon as the events are.
C22_Rendering ==
  \A r \in logging :
    /\ outcome[r] = "none" => chunks[r] = ContentAndNoticeChunks(events[r])
    /\ outcome[r] = "completed" =>
         chunks[r] = Append(ContentAndNoticeChunks(events[r]),
                            format_openai_finish_chunk(LastReason(events[r])))

\* A response with a "content-filter" Finish, then a "length" Finish and a
\* Content, completed at the sentinel
C22_Witness ==
  /\ outcome["A"] = "completed"
  /\ events["A"] = <<FinishFilter, FinishLength, ContentText>>
  /\ Len(chunks["A"]) = 3

\* The closing chunks among cs
Closing(cs) == SelectSeq(cs, LAMBDA c : c.done)

\* C23: the step in which the decoder yields an Error adds exactly the
\* content chunk with the error text and then the closing chunk with the
\* reason "stop" and the end-of-stream marker, whatever Finish was seen;
\* nothing is added afterwards, and a stream never has two closing chunks.
C23_ErrorRendering ==
  /\ [][\A r \in logging :
          (outcome[r] = "none" /\ outcome'[r] \in ErrorMsgs) =>
            chunks'[r] = chunks[r] \o
              <<format_openai_chunk(<<ErrorPrefix, outcome'[r]>>),
                format_openai_finish_chunk("stop")>>]_vars
  /\ [][\A r \in logging :
          outcome[r] \in ErrorMsgs => chunks'[r] = chunks[r]]_vars
  /\ [](\A r \in logging : Len(Closing(chunks[r])) <= 1)

\* An Error came after a Finish with the reason "length"; the stream was
\* closed with "stop" and the generator was closed
C23_Witness ==
  /\ events["A"] = <<ContentText, FinishLength, ErrorEvent(MsgTimeout)>>
  /\ Len(chunks["A"]) = 3
  /\ chunks["A"][3] = format_openai_finish_chunk("stop")
  /\ pc["A"] = "closed"

\* The texts of the Contents of ev, joined
RECURSIVE ContentTexts(_)
ContentTexts(ev) ==
  IF ev = <<>> THEN <<>>
  ELSE (IF Head(ev).type = "content" THEN <<Head(ev).data>> ELSE <<>>)
       \o ContentTexts(Tail(ev))

\* The texts of the Contents of ev and the notice for each "content-filter"
\* Finish of ev, joined
RECURSIVE ContentAndNoticeTexts(_)
ContentAndNoticeTexts(ev) ==
  IF ev = <<>> THEN <<>>
  ELSE (IF Head(ev).type = "content" THEN <<Head(ev).data>>
        ELSE IF Head(ev) = FinishFilter THEN <<FilterNotice>>
        ELSE <<>>)
       \o ContentAndNoticeTexts(Tail(ev))

\* C24 as claimed: on completion the returned object's content is the texts
\* of the Contents joined in order, and its finish reason the last Finish
\* reason ("stop" if none).
C24_AsClaimed ==
  \A r \in logging :
    outcome[r] = "completed" =>
      /\ returned[r].content = ContentTexts(events[r])
      /\ returned[r].finish_reason = LastReason(events[r])

\* C24 as amended: the content also holds, at its place in event order, a
\* fixed notice for every Finish with the reason "content-filter"; the
\* events Content("Hi"), Finish("stop") give "Hi" and "stop"; nothing is
\* returned before completion.
C24_Aggregated ==
  \A r \in logging :
    /\ outcome[r] = "completed" =>
         /\ returned[r].content = ContentAndNoticeTexts(events[r])
         /\ returned[r].finish_reason = LastReason(events[r])
         /\ resp[r] = Http200
    /\ (outcome[r] = "completed" /\ events[r] = <<ContentText, FinishStop>>) =>
         returned[r] = [content |-> <<"Hi">>, finish_reason |-> "stop"]
    /\ outcome[r] # "completed" => returned[r] = NoObject

\* Two Finishes with different reasons and a Content were aggregated
C24_Witness ==
  /\ outcome["A"] = "completed"
  /\ events["A"] = <<FinishLength, ContentText, FinishStop>>
  /\ returned["A"] = [content |-> <<"Hi">>, finish_reason |-> "stop"]

\* The example of the claim was aggregated
C24_Example ==
  /\ outcome["A"] = "completed"
  /\ events["A"] = <<ContentText, FinishStop>>

\* Frames the decoder cannot interpret: text made of tokens whose body is
\* not JSON, media arrays without an image object and text that matches no
\* pattern, or a payload that is no text
Uninterpretable ==
  BadPayloads \cup UNION {[1..n -> OddPieces] : n \in 1..MaxPieces}

\* C21: the decoder never raises; a frame it cannot interpret yields no
\* event and leaves it waiting for the next frame, and the call is never
\* ended by an exception.
C21_Uninterpretable ==
  /\ [][\A r \in logging : \A d \in Uninterpretable :
          Gets(r, d) =>
            /\ events'[r] = events[r]
            /\ pc'[r] = "recv"
            /\ outcome'[r] = "none"]_vars
  /\ [](\A r \in ReqIds : outcome[r] # "raised" /\ resp[r] # Http500Internal)

\* The step leaves the inbox, the table entry, the call and the decoder of
\* every request other than r as they are
OthersUntouched(r) ==
  \A o \in ReqIds \ {r} :
    /\ o \in response_channels' <=> o \in response_channels
    /\ queue'[o] = queue[o]
    /\ pc'[o] = pc[o]
    /\ resp'[o] = resp[o]
    /\ outcome'[o] = outcome[o]
    /\ sentOver'[o] = sentOver[o]
    /\ buffer'[o] = buffer[o]
    /\ events'[o] = events[o]

\* The answers of a call whose upload or translation failed
FailedBeforeSend == {Http500Attachment, Http500Translate}

\* C25: when the upload or the translation of a request fails, its id is
\* out of the request table when the error is answered, no payload was sent
\* for it, and the step changes nothing of any other request.
C25_FailureIsolation ==
  /\ [][\A r \in ReqIds :
          (resp[r] = "none" /\ resp'[r] \in FailedBeforeSend) =>
            /\ r \notin response_channels'
            /\ sentOver'[r] = None
            /\ OthersUntouched(r)
            /\ UNCHANGED <<linkVars, IS_REFRESHING_FOR_VERIFICATION,
                           refreshSent>>]_vars
  /\ [](\A r \in ReqIds :
          resp[r] \in FailedBeforeSend =>
            r \notin response_channels /\ sentOver[r] = None)

\* The upload of B failed while A was registered with a frame in its inbox
C25_Witness ==
  /\ resp["B"] = Http500Attachment
  /\ "A" \in response_channels
  /\ pc["A"] = "recv"
  /\ queue["A"] # <<>>

\* C26: a cancellation reaches the decoder only while it waits for a frame;
\* the decoder then stops and yields no further event, its id is out of the
\* request table, and the step changes nothing of any other request.
C26_Cancellation ==
  /\ [][\A r \in ReqIds :
          (outcome[r] # "cancelled" /\ outcome'[r] = "cancelled") =>
            /\ pc[r] = "recv"
            /\ pc'[r] = "closed"
            /\ events'[r] = events[r]
            /\ r \notin response_channels'
            /\ OthersUntouched(r)]_vars
  /\ [][\A r \in ReqIds :
          outcome[r] = "cancelled" =>
            /\ events'[r] = events[r]
            /\ pc'[r] = "closed"
            /\ outcome'[r] = "cancelled"
            /\ r \notin response_channels']_vars

\* A was cancelled after its decoder had yielded an event, while B was
\* registered with a frame in its inbox
C26_Witness ==
  /\ outcome["A"] = "cancelled"
  /\ events["A"] # <<>>
  /\ "B" \in response_channels
  /\ queue["B"] # <<>>

\* The double quote at index p of s is not escaped: the backslashes right
\* before it are even in number
RECURSIVE BackslashesBefore(_, _)
BackslashesBefore(s, p) ==
  IF p = 1 THEN 0
  ELSE IF s[p - 1] # "BS" THEN 0
  ELSE 1 + BackslashesBefore(s, p - 1)
Unescaped(s, p) == s[p] = "Q" /\ BackslashesBefore(s, p) % 2 = 0

\* The index of the first unescaped double quote of s, 0 when it has none
FirstClosing(s) ==
  IF \E p \in 1..Len(s) : Unescaped(s, p)
    THEN CHOOSE p \in 1..Len(s) :
           Unescaped(s, p) /\ \A q \in 1..(p - 1) : ~Unescaped(s, q)
    ELSE 0

\* The text t written as the body of a text token
RECURSIVE Escaped(_)
Escaped(t) ==
  IF t = <<>> THEN <<>>
  ELSE (IF Head(t) = "\"" THEN <<"BS", "Q">>
        ELSE IF Head(t) = "\\" THEN <<"BS", "BS">>
        ELSE <<"c">>) \o Escaped(Tail(t))

\* C27: of a text token that arrives character by character, cut anywhere,
\* nothing is yielded before its first unescaped double quote has arrived;
\* once it has, the token has yielded one Content whose text, written as a
\* token body, is exactly what stands before that quote (no event for an
\* empty body or one with an escape that is none); the body hi\"there gives
\* one Content for the whole of it.
C27_EscapedQuote ==
  \A r \in logging :
    (outcome[r] \in {"none", "completed"} /\ consumed[r] # <<>>
       /\ Flatten(consumed[r]) # <<>>) =>
      LET s == Tail(Flatten(consumed[r]))
          k == FirstClosing(s)
          body == SubSeq(s, 1, k - 1)
      IN /\ k = 0 => events[r] = <<>>
         /\ (k # 0 /\ (body = <<>> \/ ~ValidEscapes(body))) => events[r] = <<>>
         /\ (k # 0 /\ body # <<>> /\ ValidEscapes(body)) =>
              /\ Len(events[r]) = 1
              /\ events[r][1].type = "content"
              /\ Escaped(events[r][1].data) = body
         /\ s = <<"c", "BS", "Q", "c", "Q">> =>
              events[r] = <<[type |-> "content", data |-> <<"h", "\"", "h">>]>>

\* The token with the body h\"h came in two frames cut after the backslash
\* and was decoded as one Content
C27_Witness ==
  /\ consumed["A"] = <<<<"O", "c", "BS">>, <<"Q", "c", "Q">>>>
  /\ events["A"] = <<[type |-> "content", data |-> <<"h", "\"", "h">>]>>

\* The message templates the special handling of the last message started
\* from
TemplatesBefore == BuildTemplates(openai_req, CONFIG)

\* The last message is a user turn whose trimmed text ends with the suffix
\* and that has at least one image attachment
Triggers(templates) ==
  /\ templates # <<>>
  /\ Last(templates).role = "user"
  /\ endswith(strip(Last(templates).content), BypassSuffix)
  /\ \E i \in 1..Len(Last(templates).attachments) :
       IsImageType(Last(templates).attachments[i].contentType)

\* C28: no user turn of the message templates has empty text, after content
\* splitting and after every later step of the translation (system merge,
\* suffix transform, synthetic turns).
C28_NoEmptyUserText ==
  \A i \in 1..Len(message_templates) :
    message_templates[i].role = "user" => message_templates[i].content # <<>>

\* C29: when the transform triggers, the text of the final user turn is
\* the original text with the trailing suffix and the whitespace around it
\* removed, no other character lost, whether or not whitespace stands
\* before the suffix.
C29_SuffixStripped ==
  (tpc = "bypass" /\ Triggers(TemplatesBefore)) =>
    Last(message_templates).content =
      strip(CutLast(strip(Last(TemplatesBefore).content), Len(BypassSuffix)))

\* C30: exactly when the last message is a user turn whose trimmed text
\* ends with the suffix and that has an image attachment, an assistant turn
\* with empty text and the user turn's attachments stands immediately
\* before that user turn, whose attachment list is empty, and the minimal
\* user turn is prepended iff the first message is then an assistant turn;
\* in every other case the templates are left as they were.
C30_TransformStructure ==
  tpc = "bypass" =>
    LET before == TemplatesBefore
        after == message_templates
        n == Len(before)
    IN IF Triggers(before)
         THEN \E k \in {0, 1} :
                LET core == SubSeq(after, k + 1, Len(after))
                IN /\ Len(after) = n + 1 + k
                   /\ \A i \in 1..(n - 1) : core[i] = before[i]
                   /\ core[n].role = "assistant"
                   /\ core[n].content = <<>>
                   /\ core[n].attachments = before[n].attachments
                   /\ core[n + 1].role = "user"
                   /\ core[n + 1].attachments = <<>>
                   /\ (k = 1) <=> (core[1].role = "assistant")
                   /\ k = 1 =>
                        /\ after[1].role = "user"
                        /\ after[1].content = <<"H", "i">>
                        /\ after[1].attachments = <<>>
         ELSE after = before

\* After an assistant message, a user message "x --bypass" with a document
\* and a picture was transformed: both attachments moved to the assistant
\* turn put before it, and a user turn prepended
C30_Witness ==
  /\ tpc = "bypass"
  /\ Len(TemplatesBefore) = 2
  /\ TemplatesBefore[1].role = "assistant"
  /\ Last(TemplatesBefore).content = <<"x", " ">> \o BypassSuffix
  /\ Len(message_templates) = 4
  /\ message_templates[1] = fake_user_msg
  /\ Len(message_templates[3].attachments) = 2
  /\ message_templates[4].attachments = <<>>

\* The conversation mode and the target participant in force: the override
\* of the model's mapping where it gives one, else the global configuration
ModeInForce ==
  IF mode_override # None THEN mode_override ELSE CONFIG.id_updater_last_mode
TagInForce ==
  LET target == IF battle_target_override # None
                  THEN battle_target_override
                  ELSE CONFIG.id_updater_battle_target
  IN IF target = "A" THEN "a" ELSE "b"

BypassApplies == CONFIG.bypass_enabled /\ model_info.type \in {"text", None}

\* C32: when the bypass mode is enabled and the model is of text modality
\* (or unknown), the produced payload ends with an added user turn of
\* single-space text without attachments whose participant tag is 'a' in
\* every conversation mode; otherwise no turn is appended.
C32_BypassTurn ==
  tpc = "done" =>
    LET before == CompatTransform(TemplatesBefore)
    IN IF BypassApplies
         THEN /\ Len(message_templates) = Len(before) + 1
              /\ Last(message_templates) =
                   [role |-> "user", content |-> <<" ">>, attachments |-> <<>>,
                    participantPosition |-> "a"]
         ELSE Len(message_templates) = Len(before)

\* The messages as content splitting left them, before the system merge
Processed == processed_messages(openai_req)
IsSystem(m) == m.role = "system"
NotSystem(m) == m.role # "system"

\* C33: with the merge option enabled the templates hold at most one system
\* message; when some system message has non-empty text, it is the first,
\* its text is the system texts joined in their original order by a blank
\* line, its attachment list is empty and the non-system messages follow in
\* their original order; with the option disabled the step changes nothing.
C33_SystemMerge ==
  tpc = "special" =>
    IF CONFIG.tavern_mode_enabled
      THEN LET systems == SelectSeq(Processed, IsSystem)
               others == SelectSeq(Processed, NotSystem)
           IN /\ Len(SelectSeq(message_templates, IsSystem)) <= 1
              /\ SelectSeq(message_templates, NotSystem) = others
              /\ (\E i \in 1..Len(systems) : systems[i].content # <<>>) =>
                   /\ message_templates[1].role = "system"
                   /\ message_templates[1].content =
                        join(BlankLine, [i \in 1..Len(systems) |-> systems[i].content])
                   /\ message_templates[1].attachments = <<>>
                   /\ Tail(message_templates) = others
      ELSE message_templates = Processed

\* A user message, a developer message of empty text and a system message
\* "x" were merged: one system message, a blank line followed by x, stands
\* before the user message
C33_Witness ==
  /\ tpc = "special"
  /\ CONFIG.tavern_mode_enabled
  /\ Len(openai_req) = 3
  /\ openai_req[1].role = "user"
  /\ openai_req[2] = [role |-> "developer", content |-> StrContent(<<>>)]
  /\ openai_req[3] = [role |-> "system", content |-> StrContent(<<"x">>)]
  /\ Len(message_templates) = 2
  /\ message_templates[1].role = "system"
  /\ message_templates[1].content = <<"\n", "\n", "x">>
  /\ message_templates[2].role = "user"

\* The urls of the image parts of a list of parts, in order
RECURSIVE ImageUrls(_)
ImageUrls(ps) ==
  IF ps = <<>> THEN <<>>
  ELSE (IF Head(ps).type = "image_url" THEN <<Head(ps).url>> ELSE <<>>)
         \o ImageUrls(Tail(ps))

\* The texts of the text parts of a list of parts, each followed by a
\* blank line, in order
RECURSIVE TextsThenBlank(_)
TextsThenBlank(ps) ==
  IF ps = <<>> THEN <<>>
  ELSE (IF Head(ps).type = "text" THEN Head(ps).text \o <<"\n", "\n">> ELSE <<>>)
         \o TextsThenBlank(Tail(ps))

\* C34: a message whose content is a list of parts becomes exactly one
\* template whose text is the text parts joined in order by a blank line
\* (one space where that text is blank and the message is the user's, as
\* C28 has it), with one attachment per image part in order and no text
\* from image parts; two text parts x and " " give x, blank line, " ".
C34_MultiPart ==
  (tpc = "special" /\ ~CONFIG.tavern_mode_enabled) =>
    /\ Len(message_templates) = Len(openai_req)
    /\ \A i \in 1..Len(openai_req) :
         openai_req[i].content.kind = "list" =>
           LET parts == openai_req[i].content.parts
               joined == CutLast(TextsThenBlank(parts), 2)
               urls == ImageUrls(parts)
           IN /\ message_templates[i].content =
                   IF openai_req[i].role = "user" /\ strip(joined) = <<>>
                     THEN <<" ">>
                     ELSE joined
              /\ Len(message_templates[i].attachments) = Len(urls)
              /\ \A j \in 1..Len(urls) :
                   message_templates[i].attachments[j].url = urls[j]

\* C35: a request whose payload was sent over the current link is not
\* failed by the disconnection of a different link: such a disconnect puts
\* nothing into its inbox and leaves it in the request table.
C35_OtherLinkDisconnect ==
  [][\A l \in Links, r \in ReqIds :
       (/\ linkState[l] = "open" /\ linkState'[l] = "closed"
        /\ r \in response_channels
        /\ sentOver[r] = browser_ws
        /\ sentOver[r] # l)
         => (r \in response_channels' /\ queue'[r] = queue[r])]_vars

\* C36: at the moment chat_completions sends the payload frame of request
\* r, r is in the request table, also when the link was replaced between
\* the registration and the send.
C36_SentWhileRegistered ==
  [][\A r \in ReqIds :
       (pc[r] # "sent" /\ pc'[r] = "sent") => r \in response_channels']_vars

\* C37: while the browser keeps its links connected, whatever frames it
\* sends, usable or not, no link leaves the receive loop and no request
\* has the disconnect error put into its inbox or is taken out of the
\* request table by a link: an unusable frame is dropped without effect.
C37_UnusableFrameDropped ==
  [][/\ \A l \in Links : linkState[l] = "open" => linkState'[l] = "open"
     /\ \A r \in ReqIds :
          /\ queue'[r] # Append(queue[r], DisconnectError)
          /\ (r \in response_channels /\ r \notin response_channels') =>
               pc'[r] # pc[r]]_vars

=============================================================================
